---------------------------- MODULE Spec2Model ----------------------------
(***************************************************************************)
(* A model of the helix LSP client: the offset codec (helix-lsp/src/lib.rs *)
(* util), the change translator Client::changeset_to_changes, and one      *)
(* Connection (helix-lsp/src/client.rs Client) with the handshake task     *)
(* that Registry::get spawns for it.                                       *)
(*                                                                         *)
(* Text.  A document (Rope) is a sequence of characters.  A character is   *)
(* one of the strings of Chars: "a" "b" "c" "x" are one-unit letters,      *)
(* "LF" is \n, "CR" is \r, "E" is U+00E9 (one UTF-16 unit, two UTF-8       *)
(* bytes) and "G" is U+1F600 (two UTF-16 units, four UTF-8 bytes).         *)
(* Option<T> is a sequence of length 0 (None) or 1 (Some).                 *)
(***************************************************************************)
EXTENDS Integers, Sequences, FiniteSets, TLC

VARIABLES
    \* ---- change translator run (Client::changeset_to_changes) ----
    ct_pc,          \* "build" | "translated" | "applied"
    ct_old,         \* old_text
    ct_changes,     \* changeset.changes(): sequence of Operation
    ct_enc,         \* offset_encoding
    ct_events,      \* the returned Vec<TextDocumentContentChangeEvent>
    ct_doc,         \* the receiver's document while it applies the events
    ct_k,           \* number of events the receiver has applied
    ct_ok,          \* every applied event had a resolvable range
    \* ---- one Connection (struct Client) ----
    capabilities,   \* OnceCell<ServerCapabilities>: None or Some(caps)
    request_counter,\* AtomicU64
    server_tx,      \* payloads sent on the outbound channel, not yet taken
    calls,          \* the futures Client::call returned, in creation order
    last,           \* the last document operation: its number, name, result
    \* ---- the handshake task Registry::get spawns ----
    hs_pc,          \* "spawned" "awaiting" "notify" "signal" "done" "panicked"
    ready_signals,  \* times initialize_notify.notify_one() ran
    \* ---- transport and server (outside client.rs) ----
    transport_up,   \* the transport holds the outbound receiver
    pending,        \* correlation id -> reply channel (index into calls)
    wire_out,       \* requests the server has received and not answered
    wire_in,        \* responses the server has written, not yet read
    \* ---- the Registry and the Connections it has started ----
    inner,          \* HashMap<LanguageId, (usize, Arc<Client>)>
    counter,        \* AtomicUsize: the next connection id
    incoming,       \* SelectAll: the inbound streams pushed, in order
    clients,        \* the Clients started, in creation order
    procs,          \* per Client: its handshake task, spawned did_open
                    \* tasks and transport
    got,            \* the last Registry::get or Editor::open and its result
    \* ---- the Progress Table (LspProgressMap) ----
    lsp_progress,   \* HashMap<usize, HashMap<ProgressToken, ProgressStatus>>
    progress_ret,   \* the last call on the table and what it returned
    \* ---- one run of the offset codec (util) ----
    conv_doc,       \* the document
    conv,           \* the last conversion: its arguments and results
    \* ---- the host of the Registry (Editor, application loop) ----
    rx,             \* per Client: the inbound messages its transport read
    fan_out,        \* the (id, call) items incoming.next() has yielded
    closing,        \* the run of Editor::close_language_servers
    coords          \* the last pos_at_coords call and what came of it

ct_vars == <<ct_pc, ct_old, ct_changes, ct_enc, ct_events, ct_doc, ct_k, ct_ok>>

conn_vars == <<capabilities, request_counter, server_tx, calls, last,
               hs_pc, ready_signals, transport_up, pending, wire_out, wire_in>>

reg_vars == <<inner, counter, incoming, clients, procs, got>>

util_vars == <<lsp_progress, progress_ret, conv_doc, conv>>

host_vars == <<rx, fan_out, closing, coords>>

vars == <<ct_pc, ct_old, ct_changes, ct_enc, ct_events, ct_doc, ct_k, ct_ok,
          capabilities, request_counter, server_tx, calls, last,
          hs_pc, ready_signals, transport_up, pending, wire_out, wire_in,
          inner, counter, incoming, clients, procs, got,
          lsp_progress, progress_ret, conv_doc, conv,
          rx, fan_out, closing, coords>>

-----------------------------------------------------------------------------
(* Bounds *)

\* most operations in one generated change set
MaxOps == 3

\* most request futures created on the Connection in one run
MaxCalls == 3

\* most document operations (did_change, did_save, formatting) in one run
MaxDocOps == 2

\* most Registry::get and Editor::open calls in one run
MaxGets == 2
\* longest generated document of the codec runs, in chars
MaxDocLen == 3
\* inbound messages the transports read in a fan-in run
MaxInbound == 3

-----------------------------------------------------------------------------
(* Option and small helpers *)

None == <<>>
Some(x) == <<x>>
IsSome(o) == Len(o) = 1
Unwrap(o) == o[1]

\* text.slice(from..to): chars with 0-based index in [from, to)
Slice(text, from, to) == SubSeq(text, from + 1, to)

-----------------------------------------------------------------------------
(* Characters *)

Letters == {"a", "b", "c", "x"}
Chars == Letters \cup {"LF", "CR", "E", "G"}

\* char::len_utf16
len_utf16(ch) == IF ch = "G" THEN 2 ELSE 1

\* char::len_utf8: E is a two-byte char, G a four-byte char
len_utf8(ch) == IF ch = "G" THEN 4 ELSE IF ch = "E" THEN 2 ELSE 1

-----------------------------------------------------------------------------
(* Integer widths.  lsp::Position holds u32 fields and the codec adds them *)
(* as usize.  The largest value of both is the largest integer of the     *)
(* model: usize is as wide as u32 (a 32-bit target), which is where       *)
(* checked_add can fail.                                                   *)

U32_MAX == 2147483647
USIZE_MAX == 2147483647

\* usize::wrapping_add
wrapping_add(a, b) ==
    IF a > USIZE_MAX - b THEN Some(a - (USIZE_MAX - b) - 1) ELSE Some(a + b)

\* usize::checked_add
checked_add(a, b) == IF a > USIZE_MAX - b THEN None ELSE Some(a + b)

-----------------------------------------------------------------------------
(* Rope queries used by the codec (ropey, with CR and CRLF line breaks) *)

\* a line break ends right before char index e (0-based), 1 <= e <= len:
\* the char at e-1 is \n, or it is a \r that is not followed by \n
IsBreakEnd(doc, e) ==
    /\ e \in 1..Len(doc)
    /\ \/ doc[e] = "LF"
       \/ doc[e] = "CR" /\ (e = Len(doc) \/ doc[e + 1] # "LF")

BreakEnds(doc) == {e \in 1..Len(doc) : IsBreakEnd(doc, e)}

\* doc.lines().count() = doc.len_lines()
len_lines(doc) == Cardinality(BreakEnds(doc)) + 1

\* doc.char_to_line(pos), pos <= len_chars
char_to_line(doc, pos) == Cardinality({e \in BreakEnds(doc) : e <= pos})

\* doc.line_to_char(line), line <= len_lines; line_to_char(len_lines) = len_chars
line_to_char(doc, line) ==
    IF line = 0 THEN 0
    ELSE IF line >= len_lines(doc) THEN Len(doc)
    ELSE CHOOSE e \in BreakEnds(doc) :
            Cardinality({f \in BreakEnds(doc) : f <= e}) = line

\* doc.line(line).len_chars(), the line break included
line_len_chars(doc, line) == line_to_char(doc, line + 1) - line_to_char(doc, line)

RECURSIVE utf16_len(_)
utf16_len(text) ==
    IF text = <<>> THEN 0 ELSE len_utf16(Head(text)) + utf16_len(Tail(text))

RECURSIVE utf8_len(_)
utf8_len(text) ==
    IF text = <<>> THEN 0 ELSE len_utf8(Head(text)) + utf8_len(Tail(text))

\* doc.char_to_utf16_cu(pos)
char_to_utf16_cu(doc, pos) == utf16_len(SubSeq(doc, 1, pos))

\* doc.utf16_cu_to_char(cu): the char the code unit belongs to
utf16_cu_to_char(doc, cu) ==
    IF cu >= utf16_len(doc) THEN Len(doc)
    ELSE CHOOSE p \in 0..(Len(doc) - 1) :
            /\ char_to_utf16_cu(doc, p) <= cu
            /\ cu < char_to_utf16_cu(doc, p + 1)

-----------------------------------------------------------------------------
(* Offset codec: helix-lsp/src/lib.rs util *)

Position(line, character) == [line |-> line, character |-> character]
Range(start, end) == [start |-> start, end |-> end]

lsp_pos_to_pos(doc, pos, offset_encoding) ==
    LET max_line == len_lines(doc) - 1
        max_char == checked_add(line_to_char(doc, max_line),
                                line_len_chars(doc, max_line))
    IN  IF pos.line > max_line THEN None
        ELSE IF max_char = None THEN None
        ELSE IF offset_encoding = "Utf8"
        THEN LET line == line_to_char(doc, pos.line)
                 p == checked_add(line, pos.character)
             IN  IF p = None THEN None
                 ELSE IF Unwrap(p) <= Unwrap(max_char) THEN Some(Unwrap(p))
                 ELSE None
        ELSE LET max_cu == char_to_utf16_cu(doc, Unwrap(max_char))
                 line == line_to_char(doc, pos.line)
                 line_start == char_to_utf16_cu(doc, line)
                 p == checked_add(line_start, pos.character)
             IN  IF p = None THEN None
                 ELSE IF Unwrap(p) <= max_cu
                 THEN Some(utf16_cu_to_char(doc, Unwrap(p)))
                 ELSE None

\* a pos_to_lsp_pos whose column is a char count under both encodings
pos_to_lsp_pos_chars(doc, pos, offset_encoding) ==
    LET line == char_to_line(doc, pos)
        line_start == line_to_char(doc, line)
    IN  Position(line, pos - line_start)

pos_to_lsp_pos(doc, pos, offset_encoding) ==
    IF offset_encoding = "Utf8"
    THEN LET line == char_to_line(doc, pos)
             line_start == line_to_char(doc, line)
             col == pos - line_start
         IN  Position(line, col)
    ELSE LET line == char_to_line(doc, pos)
             line_start == char_to_utf16_cu(doc, line_to_char(doc, line))
             col == char_to_utf16_cu(doc, pos) - line_start
         IN  Position(line, col)

-----------------------------------------------------------------------------
(* Change translator: helix-lsp/src/client.rs Client::changeset_to_changes *)

Retain(n) == [op |-> "Retain", n |-> n, s |-> <<>>]
Delete(n) == [op |-> "Delete", n |-> n, s |-> <<>>]
Insert(s) == [op |-> "Insert", n |-> 0, s |-> s]

\* the new document the operation list describes (ChangeSet::apply)
RECURSIVE changeset_apply(_, _, _)
changeset_apply(changes, old, pos) ==
    IF changes = <<>> THEN <<>>
    ELSE LET c == Head(changes)
         IN  IF c.op = "Retain"
             THEN Slice(old, pos, pos + c.n) \o changeset_apply(Tail(changes), old, pos + c.n)
             ELSE IF c.op = "Delete"
             THEN changeset_apply(Tail(changes), old, pos + c.n)
             ELSE c.s \o changeset_apply(Tail(changes), old, pos)

\* the nested fn traverse(pos, text): its loop over text.chars(), with the
\* mutable line and character
RECURSIVE traverse_chars(_, _, _)
traverse_chars(line, character, text) ==
    IF text = <<>> THEN Position(line, character)
    ELSE LET ch == Head(text)
         IN  IF ch = "LF" \/ ch = "CR"
             THEN LET rest == IF ch = "CR" /\ Len(text) >= 2 /\ text[2] = "LF"
                              THEN Tail(Tail(text)) ELSE Tail(text)
                  IN  traverse_chars(line + 1, 0, rest)
             ELSE traverse_chars(line, character + len_utf16(ch), Tail(text))

\* a traverse that starts its column at 0 instead of at pos.character
traverse_col0(pos, text) == traverse_chars(pos.line, 0, text)

traverse(pos, text) == traverse_chars(pos.line, pos.character, text)

\* an event that carries the deprecated range_length
ChangeEventWithLength(range, text) ==
    [range |-> range, text |-> text, range_length |-> Some(Len(text))]

TextDocumentContentChangeEvent(range, text) ==
    [range |-> range, text |-> text, range_length |-> None]

\* a loop that does not consume the Delete after an Insert: the Insert is a
\* pure insertion and the Delete produces its own event
RECURSIVE ctc_loop_emit(_, _, _, _, _, _, _, _)
ctc_loop_emit(old_text, new_text, cs, offset_encoding, i, old_pos, new_pos, changes) ==
    IF i > Len(cs) THEN changes
    ELSE
      LET change == cs[i]
          len == IF change.op \in {"Delete", "Retain"} THEN change.n ELSE 0
          old_end == old_pos + len
          start == pos_to_lsp_pos(new_text, new_pos, offset_encoding)
      IN  IF change.op = "Retain"
          THEN ctc_loop_emit(old_text, new_text, cs, offset_encoding, i + 1,
                             old_end, new_pos + change.n, changes)
          ELSE IF change.op = "Delete"
          THEN ctc_loop_emit(old_text, new_text, cs, offset_encoding, i + 1,
                             old_end, new_pos,
                             Append(changes,
                                    [range |-> Some(Range(start,
                                        traverse(start, Slice(old_text, old_pos, old_end)))),
                                     text |-> <<>>, range_length |-> None]))
          ELSE ctc_loop_emit(old_text, new_text, cs, offset_encoding, i + 1,
                             old_end, new_pos + Len(change.s),
                             Append(changes,
                                    [range |-> Some(Range(start, start)),
                                     text |-> change.s, range_length |-> None]))

\* the while loop, from operation i (1-based) on
RECURSIVE ctc_loop(_, _, _, _, _, _, _, _)
ctc_loop(old_text, new_text, cs, offset_encoding, i, old_pos, new_pos, changes) ==
    IF i > Len(cs) THEN changes
    ELSE
      LET change == cs[i]
          len == IF change.op \in {"Delete", "Retain"} THEN change.n ELSE 0
          old_end == old_pos + len
      IN  IF change.op = "Retain"
          THEN ctc_loop(old_text, new_text, cs, offset_encoding, i + 1,
                        old_end, new_pos + change.n, changes)
          ELSE IF change.op = "Delete"
          THEN LET start == pos_to_lsp_pos(new_text, new_pos, offset_encoding)
                   end == traverse(start, Slice(old_text, old_pos, old_end))
               IN  ctc_loop(old_text, new_text, cs, offset_encoding, i + 1,
                            old_end, new_pos,
                            Append(changes,
                                   TextDocumentContentChangeEvent(Some(Range(start, end)), <<>>)))
          ELSE LET start == pos_to_lsp_pos(new_text, new_pos, offset_encoding)
                   new_pos2 == new_pos + Len(change.s)
                   peekDelete == i + 1 <= Len(cs) /\ cs[i + 1].op = "Delete"
                   old_end2 == IF peekDelete THEN old_pos + cs[i + 1].n ELSE old_end
                   end == IF peekDelete
                          THEN traverse(start, Slice(old_text, old_pos, old_end2))
                          ELSE start
               IN  ctc_loop(old_text, new_text, cs, offset_encoding,
                            IF peekDelete THEN i + 2 ELSE i + 1,
                            old_end2, new_pos2,
                            Append(changes,
                                   TextDocumentContentChangeEvent(Some(Range(start, end)), change.s)))

changeset_to_changes(old_text, new_text, changeset, offset_encoding) ==
    ctc_loop(old_text, new_text, changeset, offset_encoding, 1, 0, 0, <<>>)

-----------------------------------------------------------------------------
(* The receiver of a didChange: one event applied to its document, the     *)
(* range read with the codec in the connection's encoding.  An event with  *)
(* no range replaces the whole document.                                   *)

RangeResolves(doc, ev, enc) ==
    \/ ev.range = None
    \/ LET r == Unwrap(ev.range)
           s == lsp_pos_to_pos(doc, r.start, enc)
           e == lsp_pos_to_pos(doc, r.end, enc)
       IN  IsSome(s) /\ IsSome(e) /\ Unwrap(s) <= Unwrap(e)

ApplyEvent(doc, ev, enc) ==
    IF ev.range = None THEN ev.text
    ELSE IF ~RangeResolves(doc, ev, enc) THEN doc
    ELSE LET r == Unwrap(ev.range)
             s == Unwrap(lsp_pos_to_pos(doc, r.start, enc))
             e == Unwrap(lsp_pos_to_pos(doc, r.end, enc))
         IN  SubSeq(doc, 1, s) \o ev.text \o SubSeq(doc, e + 1, Len(doc))

-----------------------------------------------------------------------------
(* Server capabilities: the three fields of lsp::ServerCapabilities that   *)
(* client.rs reads, and the offset encoding the server declares in its     *)
(* initialize result, which client.rs does not read.                       *)

SyncKinds == {"None", "Full", "Incremental"}

\* lsp::TextDocumentSyncSaveOptions
Supported(b) == [tag |-> "Supported", supported |-> b, include_text |-> None]
SaveOptions(include_text) ==
    [tag |-> "SaveOptions", supported |-> FALSE, include_text |-> include_text]
SaveVariants ==
    {Supported(TRUE), Supported(FALSE),
     SaveOptions(None), SaveOptions(Some(TRUE)), SaveOptions(Some(FALSE))}

\* lsp::TextDocumentSyncCapability
Kind(k) == [tag |-> "Kind", kind |-> k, change |-> None, save |-> None]
Options(change, save) ==
    [tag |-> "Options", kind |-> "None", change |-> change, save |-> save]
SyncVariants ==
    {Kind(k) : k \in SyncKinds}
    \cup {Options(c, sv) : c \in {None} \cup {Some(k) : k \in SyncKinds},
                           sv \in {None} \cup {Some(o) : o \in SaveVariants}}

\* Option<OneOf<bool, Options>> of the two formatting providers
ProviderVariants == {None, Some("Left(true)"), Some("Left(false)"), Some("Right")}

ServerCapabilities(sync, fmt, rfmt) ==
    [text_document_sync |-> sync,
     document_formatting_provider |-> fmt,
     document_range_formatting_provider |-> rfmt,
     offset_encoding |-> None]

\* the capabilities of a server that declares utf-16 positions
DeclaresUtf16(caps) == [caps EXCEPT !.offset_encoding = Some("utf-16")]

AllCapabilities ==
    {ServerCapabilities(sy, f, r) :
        sy \in {None} \cup {Some(v) : v \in SyncVariants},
        f \in ProviderVariants, r \in ProviderVariants}

\* what the server of a handshake run answers to initialize
HandshakeCapabilities ==
    {DeclaresUtf16(ServerCapabilities(None, None, None)),
     ServerCapabilities(Some(Kind("Incremental")), Some("Left(true)"), None)}

-----------------------------------------------------------------------------
(* Connection: helix-lsp/src/client.rs Client *)

\* Payload sent on server_tx.  chan is the reply channel of a request: the
\* index of the call whose receiver it feeds (0 for a notification).
NoParams == [content_changes |-> <<>>, text |-> None]
Request(id, method, chan) ==
    [kind |-> "Request", id |-> id, method |-> method, chan |-> chan,
     params |-> NoParams]
Notification(method, params) ==
    [kind |-> "Notification", id |-> -1, method |-> method, chan |-> 0,
     params |-> params]

\* what a call resolved to; re and id are the request the response answers
NoOutcome == [kind |-> "none", re |-> 0, id |-> -1, result |-> None]
Outcome(kind) == [kind |-> kind, re |-> 0, id |-> -1, result |-> None]

\* a next_request_id that hands out the counter without advancing it
next_request_id_load(n) == [id |-> n, counter |-> n]

\* next_request_id: fetch_add(1)
next_request_id(n) == [id |-> n, counter |-> n + 1]

\* the future Client::call returns, before its first poll: the id is drawn
\* when call() runs, the request is sent when the future is polled
NewCall(id, method) ==
    [id |-> id, method |-> method, st |-> "created", sent |-> FALSE,
     outcome |-> NoOutcome]

is_initialized == capabilities # None

CallIds == 1..Len(calls)

SetCall(i, st, sent, outcome) ==
    [calls EXCEPT ![i] = [@ EXCEPT !.st = st, !.sent = sent, !.outcome = outcome]]

\* the reply channel of call i still has a sender: the payload is queued on
\* server_tx or the transport holds it in its pending table
SenderAlive(i) ==
    /\ transport_up
    /\ \/ \E k \in 1..Len(server_tx) :
             server_tx[k].kind = "Request" /\ server_tx[k].chan = i
       \/ \E id \in DOMAIN pending : pending[id] = i

\* Client::call, the synchronous part: clone server_tx, draw the id
CallCreate(method) ==
    /\ Len(calls) < MaxCalls
    /\ LET r == next_request_id(request_counter)
       IN  /\ calls' = Append(calls, NewCall(r.id, method))
           /\ request_counter' = r.counter
    /\ UNCHANGED ct_vars
    /\ UNCHANGED util_vars
    /\ UNCHANGED host_vars
    /\ UNCHANGED reg_vars
    /\ UNCHANGED <<capabilities, server_tx, last, hs_pc, ready_signals,
                   transport_up, pending, wire_out, wire_in>>

\* first poll of a call future: build the MethodCall, open the reply
\* channel, server_tx.send(Payload::Request); a failed send is Error::Other
\* a first poll that reports a failed send as Error::StreamClosed
PollCallsStreamClosed(i, cs, tx) ==
    IF transport_up
    THEN [calls |-> [cs EXCEPT ![i] = [@ EXCEPT !.st = "waiting", !.sent = TRUE]],
          server_tx |-> Append(tx, Request(cs[i].id, cs[i].method, i))]
    ELSE [calls |-> [cs EXCEPT ![i] = [@ EXCEPT !.st = "done",
                                                 !.outcome = Outcome("StreamClosed")]],
          server_tx |-> tx]

PollCalls(i, cs, tx) ==
    IF transport_up
    THEN [calls |-> [cs EXCEPT ![i] = [@ EXCEPT !.st = "waiting", !.sent = TRUE]],
          server_tx |-> Append(tx, Request(cs[i].id, cs[i].method, i))]
    ELSE [calls |-> [cs EXCEPT ![i] = [@ EXCEPT !.st = "done",
                                                 !.outcome = Outcome("Other")]],
          server_tx |-> tx]

CallPoll(i) ==
    /\ calls[i].st = "created"
    /\ LET r == PollCalls(i, calls, server_tx)
       IN  calls' = r.calls /\ server_tx' = r.server_tx
    /\ UNCHANGED ct_vars
    /\ UNCHANGED util_vars
    /\ UNCHANGED host_vars
    /\ UNCHANGED reg_vars
    /\ UNCHANGED <<capabilities, request_counter, last, hs_pc, ready_signals,
                   transport_up, pending, wire_out, wire_in>>

\* a timeout that also tells the server to cancel the abandoned request
CallTimeoutCancel(i) ==
    /\ calls[i].st = "waiting"
    /\ calls' = SetCall(i, "done", TRUE, Outcome("Timeout"))
    /\ server_tx' = Append(server_tx, Notification("$/cancelRequest", NoParams))
    /\ UNCHANGED ct_vars
    /\ UNCHANGED util_vars
    /\ UNCHANGED host_vars
    /\ UNCHANGED reg_vars
    /\ UNCHANGED <<capabilities, request_counter, last, hs_pc, ready_signals,
                   transport_up, pending, wire_out, wire_in>>

\* timeout(20 s, rx.recv()) elapsed: Error::Timeout, the receiver is dropped
CallTimeout(i) ==
    /\ calls[i].st = "waiting"
    /\ calls' = SetCall(i, "done", TRUE, Outcome("Timeout"))
    /\ UNCHANGED ct_vars
    /\ UNCHANGED util_vars
    /\ UNCHANGED host_vars
    /\ UNCHANGED reg_vars
    /\ UNCHANGED <<capabilities, request_counter, server_tx, last, hs_pc,
                   ready_signals, transport_up, pending, wire_out, wire_in>>

\* rx.recv() returned None, every sender is gone: Error::StreamClosed
CallStreamClosed(i) ==
    /\ calls[i].st = "waiting"
    /\ ~SenderAlive(i)
    /\ calls' = SetCall(i, "done", TRUE, Outcome("StreamClosed"))
    /\ UNCHANGED ct_vars
    /\ UNCHANGED util_vars
    /\ UNCHANGED host_vars
    /\ UNCHANGED reg_vars
    /\ UNCHANGED <<capabilities, request_counter, server_tx, last, hs_pc,
                   ready_signals, transport_up, pending, wire_out, wire_in>>

-----------------------------------------------------------------------------
(* Transport and server: the message channel behind server_tx.  The        *)
(* transport keeps one reply channel per correlation id and hands each     *)
(* response to the channel registered for its id.                          *)

PendingPut(id, chan) ==
    [x \in (DOMAIN pending) \cup {id} |-> IF x = id THEN chan ELSE pending[x]]
PendingRemove(id) ==
    [x \in (DOMAIN pending) \ {id} |-> pending[x]]

\* the transport takes the next payload off the outbound channel and writes
\* it to the server; a request's reply channel is registered under its id
TransportSend ==
    /\ transport_up
    /\ server_tx # <<>>
    /\ LET msg == Head(server_tx)
       IN  IF msg.kind = "Request"
           THEN /\ pending' = PendingPut(msg.id, msg.chan)
                /\ wire_out' = wire_out \cup
                      {[id |-> msg.id, method |-> msg.method, re |-> msg.chan]}
           ELSE UNCHANGED <<pending, wire_out>>
    /\ server_tx' = Tail(server_tx)
    /\ UNCHANGED ct_vars
    /\ UNCHANGED util_vars
    /\ UNCHANGED host_vars
    /\ UNCHANGED reg_vars
    /\ UNCHANGED <<capabilities, request_counter, calls, last, hs_pc,
                   ready_signals, transport_up, wire_in>>

\* the server answers one of the requests it holds, in any order: a result
\* (the capabilities, for initialize) or an error object
ServerReply(req, kind, caps) ==
    /\ req \in wire_out
    /\ wire_out' = wire_out \ {req}
    /\ wire_in' = wire_in \cup
         {[kind |-> kind, re |-> req.re, id |-> req.id,
           result |-> IF kind = "Value" /\ req.method = "initialize"
                      THEN Some(caps) ELSE None]}
    /\ UNCHANGED ct_vars
    /\ UNCHANGED util_vars
    /\ UNCHANGED host_vars
    /\ UNCHANGED reg_vars
    /\ UNCHANGED <<capabilities, request_counter, server_tx, calls, last,
                   hs_pc, ready_signals, transport_up, pending>>

\* the transport reads one response and sends it into the reply channel
\* registered for its id; with no such channel, or with the receiver gone,
\* the response is dropped
TransportRecv(resp) ==
    /\ transport_up
    /\ resp \in wire_in
    /\ wire_in' = wire_in \ {resp}
    /\ IF resp.id \in DOMAIN pending
       THEN /\ pending' = PendingRemove(resp.id)
            /\ LET chan == pending[resp.id]
               IN  IF calls[chan].st = "waiting"
                   THEN calls' = SetCall(chan, "done", TRUE, resp)
                   ELSE calls' = calls
       ELSE UNCHANGED <<pending, calls>>
    /\ UNCHANGED ct_vars
    /\ UNCHANGED util_vars
    /\ UNCHANGED host_vars
    /\ UNCHANGED reg_vars
    /\ UNCHANGED <<capabilities, request_counter, server_tx, last, hs_pc,
                   ready_signals, transport_up, wire_out>>

\* the server's streams close: the transport ends and drops the outbound
\* receiver and every reply sender it holds
TransportClose ==
    /\ transport_up
    /\ transport_up' = FALSE
    /\ server_tx' = <<>>
    /\ pending' = <<>>
    /\ wire_out' = {}
    /\ wire_in' = {}
    /\ UNCHANGED ct_vars
    /\ UNCHANGED util_vars
    /\ UNCHANGED host_vars
    /\ UNCHANGED reg_vars
    /\ UNCHANGED <<capabilities, request_counter, calls, last, hs_pc,
                   ready_signals>>

-----------------------------------------------------------------------------
(* Capability-gated document operations of Client *)

\* the encoding Client::start stores and offset_encoding() returns
offset_encoding == "Utf8"

\* a sync_kind that reads only the plain Kind form
sync_kind_plain(caps) ==
    LET s == caps.text_document_sync
    IN  IF s = None THEN None
        ELSE IF Unwrap(s).tag = "Kind" THEN Some(Unwrap(s).kind)
        ELSE None

\* the first match of text_document_did_change: Some(kind) for Kind(kind)
\* and for Options { change: Some(kind), .. }, otherwise return None
sync_kind(caps) ==
    LET s == caps.text_document_sync
    IN  IF s = None THEN None
        ELSE IF Unwrap(s).tag = "Kind" THEN Some(Unwrap(s).kind)
        ELSE Unwrap(s).change

\* text_document_did_change: None, or Some(the didChange notification)
text_document_did_change(caps, old_text, new_text, changes) ==
    LET k == sync_kind(caps)
    IN  IF k = None \/ Unwrap(k) = "None" THEN None
        ELSE Some(Notification("textDocument/didChange",
                [content_changes |->
                    IF Unwrap(k) = "Full"
                    THEN <<TextDocumentContentChangeEvent(None, new_text)>>
                    ELSE changeset_to_changes(old_text, new_text, changes,
                                              offset_encoding),
                 text |-> None]))

\* a save_include_text that attaches the text whenever save is requested
save_include_text_always(caps) ==
    LET s == caps.text_document_sync
    IN  IF s = None THEN None
        ELSE IF Unwrap(s).tag # "Options" \/ Unwrap(s).save = None THEN None
        ELSE LET options == Unwrap(Unwrap(s).save)
             IN  IF options.tag = "Supported"
                 THEN (IF options.supported THEN Some(TRUE) ELSE None)
                 ELSE Some(TRUE)

\* the match of text_document_did_save: Some(include_text), or None for
\* "return None"
save_include_text(caps) ==
    LET s == caps.text_document_sync
    IN  IF s = None THEN None
        ELSE IF Unwrap(s).tag # "Options" \/ Unwrap(s).save = None THEN None
        ELSE LET options == Unwrap(Unwrap(s).save)
             IN  IF options.tag = "Supported"
                 THEN (IF options.supported THEN Some(FALSE) ELSE None)
                 ELSE IF options.include_text = None THEN Some(FALSE)
                 ELSE options.include_text

\* text_document_did_save: None, or Some(the didSave notification)
text_document_did_save(caps, text) ==
    LET include_text == save_include_text(caps)
    IN  IF include_text = None THEN None
        ELSE Some(Notification("textDocument/didSave",
                [content_changes |-> <<>>,
                 text |-> IF Unwrap(include_text) THEN Some(text) ELSE None]))

\* a provider check that takes any declared provider, Left(false) too
can_format_declared(provider) == provider # None

\* Some(OneOf::Left(true)) | Some(OneOf::Right(_)) => (), _ => return
can_format(provider) == provider \in {Some("Left(true)"), Some("Right")}

\* (old_text, changes) pairs the host hands to did_change
DocEdits ==
    {[old |-> <<"a", "b">>, cs |-> <<Retain(1), Insert(<<"x">>), Delete(1)>>],
     [old |-> <<"a", "LF", "b">>, cs |-> <<Delete(2), Retain(1)>>],
     [old |-> <<>>, cs |-> <<Insert(<<"a">>)>>]}

\* documents the host saves
SaveTexts == {<<>>, <<"a", "LF", "b">>}

NoArg == [old |-> <<>>, cs |-> <<>>]

Op(op, ret, msg, call, edits, arg) ==
    [n |-> last.n + 1, op |-> op, ret |-> ret, msg |-> msg, call |-> call,
     edits |-> edits, arg |-> arg]

NoMsg == Notification("none", NoParams)

\* a notify future run to completion: the payload is queued unless the
\* outbound receiver is gone
NotifySend(tx, msg) == IF transport_up THEN Append(tx, msg) ELSE tx

\* Client::capabilities(): the set capabilities, or the panic of expect(..)
ReadCapabilities ==
    /\ last.n < MaxDocOps
    /\ last' = Op("capabilities", IF capabilities = None THEN "Panic" ELSE "Ok",
                  NoMsg, 0, <<>>, NoArg)
    /\ UNCHANGED ct_vars
    /\ UNCHANGED util_vars
    /\ UNCHANGED host_vars
    /\ UNCHANGED reg_vars
    /\ UNCHANGED <<capabilities, request_counter, server_tx, calls, hs_pc,
                   ready_signals, transport_up, pending, wire_out, wire_in>>

\* a did_change that reads an unset cell as the default capability set
DidChangeDefault(e) ==
    /\ last.n < MaxDocOps
    /\ LET caps == IF capabilities = None THEN ServerCapabilities(None, None, None)
                   ELSE Unwrap(capabilities)
           r == text_document_did_change(caps, e.old,
                        changeset_apply(e.cs, e.old, 0), e.cs)
       IN  IF r = None
           THEN /\ last' = Op("did_change", "None", NoMsg, 0, <<>>, e)
                /\ server_tx' = server_tx
           ELSE /\ last' = Op("did_change", "Some", Unwrap(r), 0, <<>>, e)
                /\ server_tx' = NotifySend(server_tx, Unwrap(r))
    /\ UNCHANGED ct_vars
    /\ UNCHANGED util_vars
    /\ UNCHANGED host_vars
    /\ UNCHANGED reg_vars
    /\ UNCHANGED <<capabilities, request_counter, calls, hs_pc, ready_signals,
                   transport_up, pending, wire_out, wire_in>>

\* did_change and the await of the future it returns; with the cell unset
\* capabilities.get().unwrap() panics
DidChange(e) ==
    /\ last.n < MaxDocOps
    /\ IF capabilities = None
       THEN /\ last' = Op("did_change", "Panic", NoMsg, 0, <<>>, e)
            /\ server_tx' = server_tx
       ELSE LET r == text_document_did_change(Unwrap(capabilities), e.old,
                        changeset_apply(e.cs, e.old, 0), e.cs)
            IN  IF r = None
                THEN /\ last' = Op("did_change", "None", NoMsg, 0, <<>>, e)
                     /\ server_tx' = server_tx
                ELSE /\ last' = Op("did_change", "Some", Unwrap(r), 0, <<>>, e)
                     /\ server_tx' = NotifySend(server_tx, Unwrap(r))
    /\ UNCHANGED ct_vars
    /\ UNCHANGED util_vars
    /\ UNCHANGED host_vars
    /\ UNCHANGED reg_vars
    /\ UNCHANGED <<capabilities, request_counter, calls, hs_pc, ready_signals,
                   transport_up, pending, wire_out, wire_in>>

\* did_save and the await of the future it returns
DidSave(text) ==
    /\ last.n < MaxDocOps
    /\ LET arg == [old |-> text, cs |-> <<>>]
       IN  IF capabilities = None
           THEN /\ last' = Op("did_save", "Panic", NoMsg, 0, <<>>, arg)
                /\ server_tx' = server_tx
           ELSE LET r == text_document_did_save(Unwrap(capabilities), text)
                IN  IF r = None
                    THEN /\ last' = Op("did_save", "None", NoMsg, 0, <<>>, arg)
                         /\ server_tx' = server_tx
                    ELSE /\ last' = Op("did_save", "Some", Unwrap(r), 0, <<>>, arg)
                         /\ server_tx' = NotifySend(server_tx, Unwrap(r))
    /\ UNCHANGED ct_vars
    /\ UNCHANGED util_vars
    /\ UNCHANGED host_vars
    /\ UNCHANGED reg_vars
    /\ UNCHANGED <<capabilities, request_counter, calls, hs_pc, ready_signals,
                   transport_up, pending, wire_out, wire_in>>

\* a text_document_formatting that creates the call before it checks the
\* provider
FormattingCallFirst ==
    /\ last.n < MaxDocOps
    /\ IF capabilities = None
       THEN /\ last' = Op("formatting", "Panic", NoMsg, 0, <<>>, NoArg)
            /\ UNCHANGED <<calls, request_counter>>
       ELSE /\ Len(calls) < MaxCalls
            /\ LET r == next_request_id(request_counter)
               IN  /\ calls' = Append(calls, NewCall(r.id, "textDocument/formatting"))
                   /\ request_counter' = r.counter
            /\ last' = IF ~can_format(Unwrap(capabilities).document_formatting_provider)
                       THEN Op("formatting", "None", NoMsg, 0, <<>>, NoArg)
                       ELSE Op("formatting", "Some", NoMsg, Len(calls) + 1, <<>>, NoArg)
    /\ UNCHANGED ct_vars
    /\ UNCHANGED util_vars
    /\ UNCHANGED host_vars
    /\ UNCHANGED reg_vars
    /\ UNCHANGED <<capabilities, server_tx, hs_pc, ready_signals,
                   transport_up, pending, wire_out, wire_in>>

\* text_document_formatting: None when the provider check fails, otherwise
\* Some(future) around a call it has already created (id drawn, not sent)
Formatting ==
    /\ last.n < MaxDocOps
    /\ IF capabilities = None
       THEN /\ last' = Op("formatting", "Panic", NoMsg, 0, <<>>, NoArg)
            /\ UNCHANGED <<calls, request_counter>>
       ELSE IF ~can_format(Unwrap(capabilities).document_formatting_provider)
       THEN /\ last' = Op("formatting", "None", NoMsg, 0, <<>>, NoArg)
            /\ UNCHANGED <<calls, request_counter>>
       ELSE /\ Len(calls) < MaxCalls
            /\ LET r == next_request_id(request_counter)
               IN  /\ calls' = Append(calls, NewCall(r.id, "textDocument/formatting"))
                   /\ request_counter' = r.counter
            /\ last' = Op("formatting", "Some", NoMsg, Len(calls) + 1, <<>>, NoArg)
    /\ UNCHANGED ct_vars
    /\ UNCHANGED util_vars
    /\ UNCHANGED host_vars
    /\ UNCHANGED reg_vars
    /\ UNCHANGED <<capabilities, server_tx, hs_pc, ready_signals,
                   transport_up, pending, wire_out, wire_in>>

\* text_document_range_formatting up to its first await: Ok(Vec::new())
\* when the provider check fails, otherwise the request is issued
RangeFormatting ==
    /\ last.n < MaxDocOps
    /\ IF capabilities = None
       THEN /\ last' = Op("range_formatting", "Panic", NoMsg, 0, <<>>, NoArg)
            /\ UNCHANGED <<calls, request_counter, server_tx>>
       ELSE IF ~can_format(Unwrap(capabilities).document_range_formatting_provider)
       THEN /\ last' = Op("range_formatting", "Ok", NoMsg, 0, <<>>, NoArg)
            /\ UNCHANGED <<calls, request_counter, server_tx>>
       ELSE /\ Len(calls) < MaxCalls
            /\ LET r == next_request_id(request_counter)
                   i == Len(calls) + 1
                   p == PollCalls(i, Append(calls,
                            NewCall(r.id, "textDocument/rangeFormatting")), server_tx)
               IN  /\ request_counter' = r.counter
                   /\ calls' = p.calls
                   /\ server_tx' = p.server_tx
            /\ last' = Op("range_formatting", "Awaiting", NoMsg, Len(calls) + 1,
                          <<>>, NoArg)
    /\ UNCHANGED ct_vars
    /\ UNCHANGED util_vars
    /\ UNCHANGED host_vars
    /\ UNCHANGED reg_vars
    /\ UNCHANGED <<capabilities, hs_pc, ready_signals,
                   transport_up, pending, wire_out, wire_in>>

-----------------------------------------------------------------------------
(* Shutdown: Client::shutdown, Client::exit, Client::force_shutdown *)

Exit == Notification("exit", NoParams)

\* force_shutdown up to its first await: shutdown() issues the shutdown
\* request (call and first poll)
ForceShutdown ==
    /\ last.op = "none"
    /\ Len(calls) < MaxCalls
    /\ LET r == next_request_id(request_counter)
           i == Len(calls) + 1
           p == PollCalls(i, Append(calls, NewCall(r.id, "shutdown")), server_tx)
       IN  /\ request_counter' = r.counter
           /\ calls' = p.calls
           /\ server_tx' = p.server_tx
           /\ last' = Op("force_shutdown", "Awaiting", NoMsg, i, <<>>, NoArg)
    /\ UNCHANGED ct_vars
    /\ UNCHANGED util_vars
    /\ UNCHANGED host_vars
    /\ UNCHANGED reg_vars
    /\ UNCHANGED <<capabilities, hs_pc, ready_signals,
                   transport_up, pending, wire_out, wire_in>>

\* the rest of shutdown_and_exit: `?` returns a shutdown error at once
ShutdownAndExitRest ==
    /\ last.op = "force_shutdown" /\ last.ret = "Awaiting"
    /\ calls[last.call].st = "done"
    /\ IF calls[last.call].outcome.kind # "Value"
       THEN /\ server_tx' = server_tx
            /\ last' = [last EXCEPT !.ret = "Err"]
       ELSE IF transport_up
       THEN /\ server_tx' = Append(server_tx, Exit)
            /\ last' = [last EXCEPT !.ret = "Ok", !.msg = Exit]
       ELSE /\ server_tx' = server_tx
            /\ last' = [last EXCEPT !.ret = "Err", !.msg = Exit]
    /\ UNCHANGED ct_vars
    /\ UNCHANGED util_vars
    /\ UNCHANGED host_vars
    /\ UNCHANGED reg_vars
    /\ UNCHANGED <<capabilities, request_counter, calls, hs_pc, ready_signals,
                   transport_up, pending, wire_out, wire_in>>

\* the rest of force_shutdown: the shutdown request has resolved, an Err is
\* logged, then self.exit().await is the value returned: Ok(()) when the
\* notification was sent, Err(Error::Other) when the send failed
ForceShutdownExit ==
    /\ last.op = "force_shutdown" /\ last.ret = "Awaiting"
    /\ calls[last.call].st = "done"
    /\ IF transport_up
       THEN /\ server_tx' = Append(server_tx, Exit)
            /\ last' = [last EXCEPT !.ret = "Ok", !.msg = Exit]
       ELSE /\ server_tx' = server_tx
            /\ last' = [last EXCEPT !.ret = "Err", !.msg = Exit]
    /\ UNCHANGED ct_vars
    /\ UNCHANGED util_vars
    /\ UNCHANGED host_vars
    /\ UNCHANGED reg_vars
    /\ UNCHANGED <<capabilities, request_counter, calls, hs_pc, ready_signals,
                   transport_up, pending, wire_out, wire_in>>

\* shutdown_and_exit up to its first await: shutdown() issues the shutdown
\* request (call and first poll)
ShutdownAndExit ==
    /\ last.op = "none"
    /\ Len(calls) < MaxCalls
    /\ LET r == next_request_id(request_counter)
           i == Len(calls) + 1
           p == PollCalls(i, Append(calls, NewCall(r.id, "shutdown")), server_tx)
       IN  /\ request_counter' = r.counter
           /\ calls' = p.calls
           /\ server_tx' = p.server_tx
           /\ last' = Op("shutdown_and_exit", "Awaiting", NoMsg, i, <<>>, NoArg)
    /\ UNCHANGED ct_vars
    /\ UNCHANGED util_vars
    /\ UNCHANGED host_vars
    /\ UNCHANGED reg_vars
    /\ UNCHANGED <<capabilities, hs_pc, ready_signals,
                   transport_up, pending, wire_out, wire_in>>

\* a shutdown_and_exit that goes on to exit whatever shutdown returned
ShutdownAndExitAnyway ==
    /\ last.op = "shutdown_and_exit" /\ last.ret = "Awaiting"
    /\ calls[last.call].st = "done"
    /\ IF transport_up
       THEN /\ server_tx' = Append(server_tx, Exit)
            /\ last' = [last EXCEPT !.ret = "Ok", !.msg = Exit]
       ELSE /\ server_tx' = server_tx
            /\ last' = [last EXCEPT !.ret = "Other", !.msg = Exit]
    /\ UNCHANGED ct_vars
    /\ UNCHANGED util_vars
    /\ UNCHANGED host_vars
    /\ UNCHANGED reg_vars
    /\ UNCHANGED <<capabilities, request_counter, calls, hs_pc, ready_signals,
                   transport_up, pending, wire_out, wire_in>>

\* the rest of shutdown_and_exit: self.shutdown().await? returns the error
\* of a failed shutdown request; after Ok, self.exit().await is the value
\* returned (the name of the error stands for Err(error))
ShutdownAndExitReturn ==
    /\ last.op = "shutdown_and_exit" /\ last.ret = "Awaiting"
    /\ calls[last.call].st = "done"
    /\ IF calls[last.call].outcome.kind # "Value"
       THEN /\ server_tx' = server_tx
            /\ last' = [last EXCEPT !.ret = calls[last.call].outcome.kind]
       ELSE IF transport_up
       THEN /\ server_tx' = Append(server_tx, Exit)
            /\ last' = [last EXCEPT !.ret = "Ok", !.msg = Exit]
       ELSE /\ server_tx' = server_tx
            /\ last' = [last EXCEPT !.ret = "Other", !.msg = Exit]
    /\ UNCHANGED ct_vars
    /\ UNCHANGED util_vars
    /\ UNCHANGED host_vars
    /\ UNCHANGED reg_vars
    /\ UNCHANGED <<capabilities, request_counter, calls, hs_pc, ready_signals,
                   transport_up, pending, wire_out, wire_in>>

-----------------------------------------------------------------------------
(* Handshake task: helix-lsp/src/lib.rs Registry::get, the spawned block *)

HsCall == CHOOSE i \in CallIds : calls[i].method = "initialize"

\* capabilities.get_or_try_init(|| initialize()...): the cell is unset, so
\* initialize() issues its request (call and first poll in one step)
HsInitialize ==
    /\ hs_pc = "spawned"
    /\ capabilities = None
    /\ Len(calls) < MaxCalls
    /\ LET r == next_request_id(request_counter)
           i == Len(calls) + 1
           p == PollCalls(i, Append(calls, NewCall(r.id, "initialize")), server_tx)
       IN  /\ request_counter' = r.counter
           /\ calls' = p.calls
           /\ server_tx' = p.server_tx
    /\ hs_pc' = "awaiting"
    /\ UNCHANGED ct_vars
    /\ UNCHANGED util_vars
    /\ UNCHANGED host_vars
    /\ UNCHANGED reg_vars
    /\ UNCHANGED <<capabilities, last, ready_signals, transport_up, pending,
                   wire_out, wire_in>>

\* a handshake that fills the cell as soon as the request is out
HsSetCapsEarly ==
    /\ hs_pc = "awaiting"
    /\ capabilities' = Some(ServerCapabilities(None, None, None))
    /\ hs_pc' = "notify"
    /\ UNCHANGED ct_vars
    /\ UNCHANGED util_vars
    /\ UNCHANGED host_vars
    /\ UNCHANGED reg_vars
    /\ UNCHANGED <<request_counter, server_tx, calls, last, ready_signals,
                   transport_up, pending, wire_out, wire_in>>

\* the initialize request resolved: Ok sets the cell to the response's
\* capabilities, Err makes value.expect(..) panic and the task ends
HsSetCaps ==
    /\ hs_pc = "awaiting"
    /\ calls[HsCall].st = "done"
    /\ IF calls[HsCall].outcome.kind = "Value"
       THEN /\ capabilities' = Some(Unwrap(calls[HsCall].outcome.result))
            /\ hs_pc' = "notify"
       ELSE /\ capabilities' = capabilities
            /\ hs_pc' = "panicked"
    /\ UNCHANGED ct_vars
    /\ UNCHANGED util_vars
    /\ UNCHANGED host_vars
    /\ UNCHANGED reg_vars
    /\ UNCHANGED <<request_counter, server_tx, calls, last, ready_signals,
                   transport_up, pending, wire_out, wire_in>>

\* a handshake step that goes on to the ready signal whether or not the
\* "initialized" notification could be sent
HsNotifyInitializedUnchecked ==
    /\ hs_pc = "notify"
    /\ server_tx' = NotifySend(server_tx, Notification("initialized", NoParams))
    /\ hs_pc' = "signal"
    /\ UNCHANGED ct_vars
    /\ UNCHANGED util_vars
    /\ UNCHANGED host_vars
    /\ UNCHANGED reg_vars
    /\ UNCHANGED <<capabilities, request_counter, calls, last, ready_signals,
                   transport_up, pending, wire_out, wire_in>>

\* notify::<Initialized>(..).await.unwrap()
HsNotifyInitialized ==
    /\ hs_pc = "notify"
    /\ IF transport_up
       THEN /\ server_tx' = Append(server_tx, Notification("initialized", NoParams))
            /\ hs_pc' = "signal"
       ELSE /\ server_tx' = server_tx
            /\ hs_pc' = "panicked"
    /\ UNCHANGED ct_vars
    /\ UNCHANGED util_vars
    /\ UNCHANGED host_vars
    /\ UNCHANGED reg_vars
    /\ UNCHANGED <<capabilities, request_counter, calls, last, ready_signals,
                   transport_up, pending, wire_out, wire_in>>

\* initialize_notify.notify_one()
HsReady ==
    /\ hs_pc = "signal"
    /\ ready_signals' = ready_signals + 1
    /\ hs_pc' = "done"
    /\ UNCHANGED ct_vars
    /\ UNCHANGED util_vars
    /\ UNCHANGED host_vars
    /\ UNCHANGED reg_vars
    /\ UNCHANGED <<capabilities, request_counter, server_tx, calls, last,
                   transport_up, pending, wire_out, wire_in>>

NoOp == [n |-> 0, op |-> "none", ret |-> "none", msg |-> NoMsg, call |-> 0,
         edits |-> <<>>, arg |-> NoArg]

\* Client::start, then Registry::get has spawned the handshake task
ConnInit ==
    /\ capabilities = None
    /\ request_counter = 0
    /\ server_tx = <<>>
    /\ calls = <<>>
    /\ last = NoOp
    /\ hs_pc = "spawned"
    /\ ready_signals = 0
    /\ transport_up = TRUE
    /\ pending = <<>>
    /\ wire_out = {}
    /\ wire_in = {}

-----------------------------------------------------------------------------
(* Registry: helix-lsp/src/lib.rs *)

\* what the last get/open returned
NoGet == [n |-> 0, op |-> "none", scope |-> "none", ret |-> "none", client |-> 0]

\* Registry::new
RegistryNew ==
    /\ inner = <<>>
    /\ counter = 0
    /\ incoming = <<>>
    /\ clients = <<>>
    /\ procs = <<>>
    /\ got = NoGet

\* the language configurations of the host: two with a language server,
\* one without
LanguageConfigurations ==
    {[scope |-> "source.rust", language_server |-> Some("rust-analyzer")],
     [scope |-> "source.go", language_server |-> Some("gopls")],
     [scope |-> "text.plain", language_server |-> None]}

\* the Client that Client::start(cmd, args, config, id) builds
Client(id) ==
    [id |-> id, request_counter |-> 0, capabilities |-> None,
     server_tx |-> <<>>]

\* what starts running with a new Client: the transport (Transport::start)
\* and the handshake task; no did_open task yet
NewProc ==
    [transport_up |-> TRUE, hs_pc |-> "spawned", hs_result |-> "none",
     ready_signals |-> 0, did_open |-> 0]

\* entry.insert((id, client))
InnerPut(scope, entry) ==
    [x \in (DOMAIN inner) \cup {scope} |-> IF x = scope THEN entry ELSE inner[x]]

ClientIds == 1..Len(clients)

\* a get_by_id that takes the id for the position of the Client among the
\* Clients started
get_by_id_nth(id) ==
    IF id + 1 \in ClientIds THEN Some(id + 1) ELSE None

\* Registry::get_by_id: inner.values().find(|(client_id, _)| client_id == &id)
get_by_id(id) ==
    IF \E x \in DOMAIN inner : inner[x].id = id
    THEN Some(inner[CHOOSE x \in DOMAIN inner : inner[x].id = id].client)
    ELSE None

\* Registry::iter_clients: inner.values().map(|(_, client)| client), one
\* item per key of the table
iter_clients == [x \in DOMAIN inner |-> inner[x].client]

\* a get that never looks for an existing entry
get_vacant(language_config, spawn_ok) ==
    IF language_config.language_server = None
    THEN [inner |-> inner, counter |-> counter, incoming |-> incoming,
          clients |-> clients, procs |-> procs,
          ret |-> "LspNotDefined", client |-> 0]
    ELSE IF ~spawn_ok
    THEN [inner |-> inner, counter |-> counter + 1, incoming |-> incoming,
          clients |-> clients, procs |-> procs, ret |-> "Io", client |-> 0]
    ELSE [inner |-> InnerPut(language_config.scope,
                       [id |-> counter, client |-> Len(clients) + 1]),
          counter |-> counter + 1,
          incoming |-> Append(incoming, [tag |-> counter, queue |-> <<>>]),
          clients |-> Append(clients, Client(counter)),
          procs |-> Append(procs, NewProc),
          ret |-> "Ok", client |-> Len(clients) + 1]

\* a get that draws the connection id before it looks at the configuration
get_id_first(language_config, spawn_ok) ==
    IF language_config.language_server = None
    THEN [inner |-> inner, counter |-> counter + 1, incoming |-> incoming,
          clients |-> clients, procs |-> procs,
          ret |-> "LspNotDefined", client |-> 0]
    ELSE IF language_config.scope \in DOMAIN inner
    THEN [inner |-> inner, counter |-> counter, incoming |-> incoming,
          clients |-> clients, procs |-> procs,
          ret |-> "Ok", client |-> inner[language_config.scope].client]
    ELSE IF ~spawn_ok
    THEN [inner |-> inner, counter |-> counter + 1, incoming |-> incoming,
          clients |-> clients, procs |-> procs, ret |-> "Io", client |-> 0]
    ELSE [inner |-> InnerPut(language_config.scope,
                       [id |-> counter, client |-> Len(clients) + 1]),
          counter |-> counter + 1,
          incoming |-> Append(incoming, [tag |-> counter, queue |-> <<>>]),
          clients |-> Append(clients, Client(counter)),
          procs |-> Append(procs, NewProc),
          ret |-> "Ok", client |-> Len(clients) + 1]

\* a get that reads the counter without advancing it
get_load(language_config, spawn_ok) ==
    IF language_config.language_server = None
    THEN [inner |-> inner, counter |-> counter, incoming |-> incoming,
          clients |-> clients, procs |-> procs,
          ret |-> "LspNotDefined", client |-> 0]
    ELSE IF language_config.scope \in DOMAIN inner
    THEN [inner |-> inner, counter |-> counter, incoming |-> incoming,
          clients |-> clients, procs |-> procs,
          ret |-> "Ok", client |-> inner[language_config.scope].client]
    ELSE IF ~spawn_ok
    THEN [inner |-> inner, counter |-> counter, incoming |-> incoming,
          clients |-> clients, procs |-> procs, ret |-> "Io", client |-> 0]
    ELSE [inner |-> InnerPut(language_config.scope,
                       [id |-> counter, client |-> Len(clients) + 1]),
          counter |-> counter,
          incoming |-> Append(incoming, [tag |-> counter, queue |-> <<>>]),
          clients |-> Append(clients, Client(counter)),
          procs |-> Append(procs, NewProc),
          ret |-> "Ok", client |-> Len(clients) + 1]

\* a get that draws the connection id only once the spawn has succeeded
get_id_on_spawn(language_config, spawn_ok) ==
    IF language_config.language_server = None
    THEN [inner |-> inner, counter |-> counter, incoming |-> incoming,
          clients |-> clients, procs |-> procs,
          ret |-> "LspNotDefined", client |-> 0]
    ELSE IF language_config.scope \in DOMAIN inner
    THEN [inner |-> inner, counter |-> counter, incoming |-> incoming,
          clients |-> clients, procs |-> procs,
          ret |-> "Ok", client |-> inner[language_config.scope].client]
    ELSE IF ~spawn_ok
    THEN [inner |-> inner, counter |-> counter, incoming |-> incoming,
          clients |-> clients, procs |-> procs, ret |-> "Io", client |-> 0]
    ELSE [inner |-> InnerPut(language_config.scope,
                       [id |-> counter, client |-> Len(clients) + 1]),
          counter |-> counter + 1,
          incoming |-> Append(incoming, [tag |-> counter, queue |-> <<>>]),
          clients |-> Append(clients, Client(counter)),
          procs |-> Append(procs, NewProc),
          ret |-> "Ok", client |-> Len(clients) + 1]

\* Registry::get(language_config): the Registry after the call, the result
\* and the Client returned (0 for none).  spawn_ok: Command::spawn in
\* Client::start succeeded; when it fails the id is already drawn and `?`
\* returns the error before anything is registered
get(language_config, spawn_ok) ==
    IF language_config.language_server = None
    THEN [inner |-> inner, counter |-> counter, incoming |-> incoming,
          clients |-> clients, procs |-> procs,
          ret |-> "LspNotDefined", client |-> 0]
    ELSE IF language_config.scope \in DOMAIN inner
    THEN [inner |-> inner, counter |-> counter, incoming |-> incoming,
          clients |-> clients, procs |-> procs,
          ret |-> "Ok", client |-> inner[language_config.scope].client]
    ELSE IF ~spawn_ok
    THEN [inner |-> inner, counter |-> counter + 1, incoming |-> incoming,
          clients |-> clients, procs |-> procs, ret |-> "Io", client |-> 0]
    ELSE [inner |-> InnerPut(language_config.scope,
                       [id |-> counter, client |-> Len(clients) + 1]),
          counter |-> counter + 1,
          incoming |-> Append(incoming, [tag |-> counter, queue |-> <<>>]),
          clients |-> Append(clients, Client(counter)),
          procs |-> Append(procs, NewProc),
          ret |-> "Ok", client |-> Len(clients) + 1]

Got(op, language_config, r) ==
    [n |-> got.n + 1, op |-> op, scope |-> language_config.scope,
     ret |-> r.ret, client |-> r.client]

\* the host calls Registry::get
RegistryGet(language_config) ==
    /\ got.n < MaxGets
    /\ \E spawn_ok \in BOOLEAN :
         LET r == get(language_config, spawn_ok)
         IN  /\ inner' = r.inner
             /\ counter' = r.counter
             /\ incoming' = r.incoming
             /\ clients' = r.clients
             /\ procs' = r.procs
             /\ got' = Got("get", language_config, r)
    /\ UNCHANGED ct_vars
    /\ UNCHANGED util_vars
    /\ UNCHANGED host_vars
    /\ UNCHANGED conn_vars

\* Editor::open of a document not yet open, of the given language: get, and
\* for Ok(language_server) tokio::spawn(text_document_did_open(..)); an Err
\* is logged and the document opens without a language server
EditorOpen(language_config) ==
    /\ got.n < MaxGets
    /\ \E spawn_ok \in BOOLEAN :
         LET r == get(language_config, spawn_ok)
         IN  /\ inner' = r.inner
             /\ counter' = r.counter
             /\ incoming' = r.incoming
             /\ clients' = r.clients
             /\ procs' = IF r.ret = "Ok"
                         THEN [r.procs EXCEPT ![r.client].did_open = @ + 1]
                         ELSE r.procs
             /\ got' = Got("open", language_config, r)
    /\ UNCHANGED ct_vars
    /\ UNCHANGED util_vars
    /\ UNCHANGED host_vars
    /\ UNCHANGED conn_vars

\* a spawned text_document_did_open future runs: notify sends the didOpen
\* notification unless the outbound receiver is gone
DidOpenRun(c) ==
    /\ procs[c].did_open > 0
    /\ procs' = [procs EXCEPT ![c].did_open = @ - 1]
    /\ clients' = IF procs[c].transport_up
                  THEN [clients EXCEPT ![c].server_tx =
                          Append(@, Notification("textDocument/didOpen", NoParams))]
                  ELSE clients
    /\ UNCHANGED <<inner, counter, incoming, got>>
    /\ UNCHANGED ct_vars
    /\ UNCHANGED util_vars
    /\ UNCHANGED host_vars
    /\ UNCHANGED conn_vars

\* the handshake task of Client c: get_or_try_init finds the cell unset and
\* runs initialize(); a failed send is Err at once and expect(..) panics
HandshakeInitialize(c) ==
    /\ procs[c].hs_pc = "spawned"
    /\ clients[c].capabilities = None
    /\ LET r == next_request_id(clients[c].request_counter)
       IN  IF procs[c].transport_up
           THEN /\ clients' = [clients EXCEPT
                      ![c].request_counter = r.counter,
                      ![c].server_tx = Append(@, Request(r.id, "initialize", 0))]
                /\ procs' = [procs EXCEPT ![c].hs_pc = "awaiting"]
           ELSE /\ clients' = [clients EXCEPT ![c].request_counter = r.counter]
                /\ procs' = [procs EXCEPT ![c].hs_pc = "panicked",
                                          ![c].hs_result = "Other"]
    /\ UNCHANGED <<inner, counter, incoming, got>>
    /\ UNCHANGED ct_vars
    /\ UNCHANGED util_vars
    /\ UNCHANGED host_vars
    /\ UNCHANGED conn_vars

\* a handshake task that starts over when initialize fails
HandshakeSetCapsRetry(c, kind, caps) ==
    /\ procs[c].hs_pc = "awaiting"
    /\ kind \in {"Value", "Rpc"} => procs[c].transport_up
    /\ kind = "StreamClosed" => ~procs[c].transport_up
    /\ IF kind = "Value"
       THEN /\ clients' = [clients EXCEPT ![c].capabilities = Some(caps)]
            /\ procs' = [procs EXCEPT ![c].hs_pc = "notify",
                                      ![c].hs_result = kind]
       ELSE /\ clients' = clients
            /\ procs' = [procs EXCEPT ![c].hs_pc = "spawned",
                                      ![c].hs_result = kind]
    /\ UNCHANGED <<inner, counter, incoming, got>>
    /\ UNCHANGED ct_vars
    /\ UNCHANGED util_vars
    /\ UNCHANGED host_vars
    /\ UNCHANGED conn_vars

\* the initialize request of Client c resolved to one of the outcomes of
\* Client::call: Ok sets the cell, Err makes expect(..) panic
HandshakeSetCaps(c, kind, caps) ==
    /\ procs[c].hs_pc = "awaiting"
    /\ kind \in {"Value", "Rpc"} => procs[c].transport_up
    /\ kind = "StreamClosed" => ~procs[c].transport_up
    /\ IF kind = "Value"
       THEN /\ clients' = [clients EXCEPT ![c].capabilities = Some(caps)]
            /\ procs' = [procs EXCEPT ![c].hs_pc = "notify",
                                      ![c].hs_result = kind]
       ELSE /\ clients' = clients
            /\ procs' = [procs EXCEPT ![c].hs_pc = "panicked",
                                      ![c].hs_result = kind]
    /\ UNCHANGED <<inner, counter, incoming, got>>
    /\ UNCHANGED ct_vars
    /\ UNCHANGED util_vars
    /\ UNCHANGED host_vars
    /\ UNCHANGED conn_vars

\* notify::<Initialized>(..).await.unwrap() of Client c
HandshakeNotifyInitialized(c) ==
    /\ procs[c].hs_pc = "notify"
    /\ IF procs[c].transport_up
       THEN /\ clients' = [clients EXCEPT ![c].server_tx =
                             Append(@, Notification("initialized", NoParams))]
            /\ procs' = [procs EXCEPT ![c].hs_pc = "signal"]
       ELSE /\ clients' = clients
            /\ procs' = [procs EXCEPT ![c].hs_pc = "panicked"]
    /\ UNCHANGED <<inner, counter, incoming, got>>
    /\ UNCHANGED ct_vars
    /\ UNCHANGED util_vars
    /\ UNCHANGED host_vars
    /\ UNCHANGED conn_vars

\* initialize_notify.notify_one() of Client c
HandshakeReady(c) ==
    /\ procs[c].hs_pc = "signal"
    /\ procs' = [procs EXCEPT ![c].hs_pc = "done", ![c].ready_signals = @ + 1]
    /\ UNCHANGED <<inner, counter, incoming, clients, got>>
    /\ UNCHANGED ct_vars
    /\ UNCHANGED util_vars
    /\ UNCHANGED host_vars
    /\ UNCHANGED conn_vars

\* the tool of Client c closes its streams: its transport ends
ProcTransportClose(c) ==
    /\ procs[c].transport_up
    /\ procs' = [procs EXCEPT ![c].transport_up = FALSE]
    /\ UNCHANGED <<inner, counter, incoming, clients, got>>
    /\ UNCHANGED ct_vars
    /\ UNCHANGED util_vars
    /\ UNCHANGED host_vars
    /\ UNCHANGED conn_vars

-----------------------------------------------------------------------------
(* Progress Table and codec runs: the states in which nothing has run *)

NoProgressCall ==
    [op |-> "none", id |-> 0, token |-> "none", ret |-> None]

\* LspProgressMap::new
ProgressNew ==
    /\ lsp_progress = <<>>
    /\ progress_ret = NoProgressCall

NoConv ==
    [op |-> "none", enc |-> "Utf8", pos |-> None, lsp |-> None, back |-> None]

ConvIdle ==
    /\ conv_doc = <<>>
    /\ conv = NoConv

UtilIdle == ProgressNew /\ ConvIdle

\* nothing received or yielded, no close_language_servers run, no
\* coordinate conversion
NoClose ==
    [pc |-> "idle", timeout |-> None, deadline |-> 0, futs |-> <<>>,
     ret |-> "none"]
NoCoords == [op |-> "none"]
HostIdle ==
    /\ rx = <<>>
    /\ fan_out = <<>>
    /\ closing = NoClose
    /\ coords = NoCoords

-----------------------------------------------------------------------------
(* Progress Table: helix-lsp/src/lib.rs LspProgressMap.  The operators take *)
(* the map (self.0) as m; those that change it return the new map and the   *)
(* value returned.                                                          *)

\* ProgressStatus
Created == [tag |-> "Created", progress |-> None]
Started(progress) == [tag |-> "Started", progress |-> Some(progress)]

\* lsp::WorkDoneProgress payloads, connection ids and progress tokens of the
\* runs
WorkDoneProgress == {"Begin", "Report", "End"}
ConnectionIds == {0, 1}
ProgressTokens == {"t1", "t2"}

\* HashMap::insert, remove and get
MapPut(m, k, v) == [x \in (DOMAIN m) \cup {k} |-> IF x = k THEN v ELSE m[x]]
MapRemove(m, k) == [x \in (DOMAIN m) \ {k} |-> m[x]]
MapGet(m, k) == IF k \in DOMAIN m THEN Some(m[k]) ELSE None

\* self.0.entry(id).or_default(): the map with an (empty) entry for id
EntryOrDefault(m, id) == IF id \in DOMAIN m THEN m ELSE MapPut(m, id, <<>>)

progress_map(m, id) == MapGet(m, id)

\* an is_progressing that is true for every id the table has an entry for
is_progressing_seen(m, id) == id \in DOMAIN m

\* self.0.get(&id).map(|it| !it.is_empty()).unwrap_or_default()
is_progressing(m, id) ==
    IF id \in DOMAIN m THEN DOMAIN m[id] # {} ELSE FALSE

\* self.0.get(&id).and_then(|values| values.get(token))
progress(m, id, token) ==
    IF id \in DOMAIN m THEN MapGet(m[id], token) ELSE None

is_created(m, id, token) ==
    IF id \in DOMAIN m THEN token \in DOMAIN m[id] ELSE FALSE

create(m, id, token) ==
    [map |-> MapPut(m, id, MapPut(EntryOrDefault(m, id)[id], token, Created)),
     ret |-> None]

\* an end_progress that returns the value and leaves it in the table
end_progress_keep(m, id, token) ==
    [map |-> m, ret |-> progress(m, id, token)]

\* self.0.get_mut(&id).and_then(|vals| vals.remove(token))
end_progress(m, id, token) ==
    IF id \in DOMAIN m /\ token \in DOMAIN m[id]
    THEN [map |-> MapPut(m, id, MapRemove(m[id], token)),
          ret |-> Some(m[id][token])]
    ELSE [map |-> m, ret |-> None]

\* an update that writes only over an entry that is tracked
update_tracked(m, id, token, status) ==
    IF id \in DOMAIN m /\ token \in DOMAIN m[id]
    THEN [map |-> MapPut(m, id, MapPut(m[id], token, Started(status))),
          ret |-> Some(m[id][token])]
    ELSE [map |-> m, ret |-> None]

\* entry(id).or_default().insert(token, Started(status)): the value replaced
update(m, id, token, status) ==
    [map |-> MapPut(m, id,
                MapPut(EntryOrDefault(m, id)[id], token, Started(status))),
     ret |-> progress(m, id, token)]

ProgressCreate(id, token) ==
    LET r == create(lsp_progress, id, token)
    IN  /\ lsp_progress' = r.map
        /\ progress_ret' = [op |-> "create", id |-> id, token |-> token,
                            ret |-> r.ret]
        /\ UNCHANGED <<conv_doc, conv>>
        /\ UNCHANGED host_vars
        /\ UNCHANGED ct_vars
        /\ UNCHANGED conn_vars
        /\ UNCHANGED reg_vars

ProgressUpdate(id, token, status) ==
    LET r == update(lsp_progress, id, token, status)
    IN  /\ lsp_progress' = r.map
        /\ progress_ret' = [op |-> "update", id |-> id, token |-> token,
                            ret |-> r.ret]
        /\ UNCHANGED <<conv_doc, conv>>
        /\ UNCHANGED host_vars
        /\ UNCHANGED ct_vars
        /\ UNCHANGED conn_vars
        /\ UNCHANGED reg_vars

ProgressEnd(id, token) ==
    LET r == end_progress(lsp_progress, id, token)
    IN  /\ lsp_progress' = r.map
        /\ progress_ret' = [op |-> "end_progress", id |-> id, token |-> token,
                            ret |-> r.ret]
        /\ UNCHANGED <<conv_doc, conv>>
        /\ UNCHANGED host_vars
        /\ UNCHANGED ct_vars
        /\ UNCHANGED conn_vars
        /\ UNCHANGED reg_vars

-----------------------------------------------------------------------------
(* Fan-in queue: Registry::incoming, a SelectAll over one inbound stream   *)
(* per Client.  The transport of a Client sends (id, call) items on the    *)
(* Client's inbound channel, with the id Client::start handed it.          *)

RxOf(c) == IF c \in DOMAIN rx THEN rx[c] ELSE <<>>

RECURSIVE RxTotal(_)
RxTotal(c) == IF c = 0 THEN 0 ELSE Len(RxOf(c)) + RxTotal(c - 1)

\* the transport of Client c reads a message of its tool and sends it, with
\* the Client's id, on the inbound channel; calls are numbered as they
\* arrive
TransportInbound(c) ==
    /\ procs[c].transport_up
    /\ RxTotal(Len(clients)) < MaxInbound
    /\ LET call == RxTotal(Len(clients)) + 1
       IN  /\ rx' = MapPut(rx, c, Append(RxOf(c), call))
           /\ incoming' = [incoming EXCEPT ![c].queue =
                              Append(@, [id |-> incoming[c].tag, call |-> call])]
    /\ UNCHANGED <<inner, counter, clients, procs, got>>
    /\ UNCHANGED <<fan_out, closing, coords>>
    /\ UNCHANGED ct_vars
    /\ UNCHANGED util_vars
    /\ UNCHANGED conn_vars

\* an incoming.next() that yields the newest item of stream i
IncomingNextNewest(i) ==
    /\ incoming[i].queue # <<>>
    /\ fan_out' = Append(fan_out, incoming[i].queue[Len(incoming[i].queue)])
    /\ incoming' = [incoming EXCEPT ![i].queue = SubSeq(@, 1, Len(@) - 1)]
    /\ UNCHANGED <<inner, counter, clients, procs, got>>
    /\ UNCHANGED <<rx, closing, coords>>
    /\ UNCHANGED ct_vars
    /\ UNCHANGED util_vars
    /\ UNCHANGED conn_vars

\* incoming.next(): SelectAll yields the next item of one of its streams
\* that has an item ready
IncomingNext(i) ==
    /\ incoming[i].queue # <<>>
    /\ fan_out' = Append(fan_out, Head(incoming[i].queue))
    /\ incoming' = [incoming EXCEPT ![i].queue = Tail(@)]
    /\ UNCHANGED <<inner, counter, clients, procs, got>>
    /\ UNCHANGED <<rx, closing, coords>>
    /\ UNCHANGED ct_vars
    /\ UNCHANGED util_vars
    /\ UNCHANGED conn_vars

-----------------------------------------------------------------------------
(* Coordinates: helix-core/src/position.rs pos_at_coords.  A call returns  *)
(* Some(char index), or None when it panics.                               *)

\* get_line_ending(line).len_chars(): the chars of the line ending a line
\* ends with, 0 when it has none
LineEndingLen(line) ==
    LET n == Len(line)
    IN  IF n >= 2 /\ line[n - 1] = "CR" /\ line[n] = "LF" THEN 2
        ELSE IF n >= 1 /\ line[n] \in {"LF", "CR"} THEN 1
        ELSE 0

\* line_end_char_index(text, row): the end of the line, before its line
\* ending
line_end_char_index(text, row) ==
    line_to_char(text, row + 1)
        - LineEndingLen(Slice(text, line_to_char(text, row),
                                    line_to_char(text, row + 1)))

\* RopeGraphemes: the char counts of the grapheme clusters of a text; CR LF
\* is one cluster, every other char of CodecChars is a cluster of its own
RECURSIVE RopeGraphemes(_)
RopeGraphemes(text) ==
    IF text = <<>> THEN <<>>
    ELSE IF Len(text) >= 2 /\ text[1] = "CR" /\ text[2] = "LF"
    THEN <<2>> \o RopeGraphemes(SubSeq(text, 3, Len(text)))
    ELSE <<1>> \o RopeGraphemes(Tail(text))

RECURSIVE SumFirst(_, _)
SumFirst(gs, n) ==
    IF n = 0 \/ gs = <<>> THEN 0 ELSE Head(gs) + SumFirst(Tail(gs), n - 1)

\* pos_at_coords(text, coords, limit_before_line_ending).  Rope::line_to_char
\* panics for a line index above len_lines, and Rope::line, which
\* line_end_char_index reads the line ending from, for one that is not below
\* len_lines
pos_at_coords(text, coord, limit_before_line_ending) ==
    IF coord.row > len_lines(text) THEN None
    ELSE IF limit_before_line_ending /\ coord.row >= len_lines(text) THEN None
    ELSE LET line_start == line_to_char(text, coord.row)
             line_end == IF limit_before_line_ending
                         THEN line_end_char_index(text, coord.row)
                         ELSE line_to_char(text,
                                  IF coord.row + 1 < len_lines(text)
                                  THEN coord.row + 1 ELSE len_lines(text))
             gs == RopeGraphemes(Slice(text, line_start, line_end))
         IN  Some(line_start + SumFirst(gs, coord.col))

\* helix_core::Position
Coords(row, col) == [row |-> row, col |-> col]

PosAtCoords(text, coord, limit_before_line_ending) ==
    /\ coords = NoCoords
    /\ coords' = [op |-> "pos_at_coords", text |-> text, coord |-> coord,
                  limit_before_line_ending |-> limit_before_line_ending,
                  ret |-> pos_at_coords(text, coord, limit_before_line_ending)]
    /\ UNCHANGED <<rx, fan_out, closing>>
    /\ UNCHANGED ct_vars
    /\ UNCHANGED util_vars
    /\ UNCHANGED conn_vars
    /\ UNCHANGED reg_vars

-----------------------------------------------------------------------------
(* Specification SpecCT: change sets are built operation by operation over *)
(* the fragments below, translated, and the events applied in order.       *)

Encodings == {"Utf8", "Utf16"}

\* texts an operation of a generated change set retains, deletes or inserts
Fragments == {<<"a">>, <<"LF">>, <<"CR">>, <<"G">>}

ScenarioAOld == <<"a", "b", "c">>
ScenarioAOps == <<Retain(1), Delete(1), Insert(<<"x">>), Retain(1)>>
ScenarioBOps == <<Retain(1), Insert(<<"x">>), Delete(1), Retain(1)>>

ct_new == changeset_apply(ct_changes, ct_old, 0)

CTInit ==
    /\ ct_pc = "build"
    /\ ct_enc \in Encodings
    /\ \/ ct_old = <<>> /\ ct_changes = <<>>
       \/ ct_old = ScenarioAOld /\ ct_changes \in {ScenarioAOps, ScenarioBOps}
    /\ ct_events = <<>>
    /\ ct_doc = <<>>
    /\ ct_k = 0
    /\ ct_ok = TRUE
    /\ ConnInit
    /\ RegistryNew
    /\ UtilIdle /\ HostIdle

\* the host appends one operation to the change set (and, for Retain and
\* Delete, the text it covers to the old document)
CTAddOp ==
    /\ ct_pc = "build"
    /\ ct_old # ScenarioAOld
    /\ Len(ct_changes) < MaxOps
    /\ \E f \in Fragments :
         \/ /\ ct_changes' = Append(ct_changes, Retain(Len(f)))
            /\ ct_old' = ct_old \o f
         \/ /\ ct_changes' = Append(ct_changes, Delete(Len(f)))
            /\ ct_old' = ct_old \o f
         \/ /\ ct_changes' = Append(ct_changes, Insert(f))
            /\ ct_old' = ct_old
    /\ UNCHANGED conn_vars
    /\ UNCHANGED reg_vars
    /\ UNCHANGED util_vars
    /\ UNCHANGED host_vars
    /\ UNCHANGED <<ct_pc, ct_enc, ct_events, ct_doc, ct_k, ct_ok>>

\* changeset_to_changes(old_text, new_text, changeset, offset_encoding)
CTTranslate ==
    /\ ct_pc = "build"
    /\ ct_events' = changeset_to_changes(ct_old, ct_new, ct_changes, ct_enc)
    /\ ct_doc' = ct_old
    /\ ct_pc' = "translated"
    /\ UNCHANGED conn_vars
    /\ UNCHANGED reg_vars
    /\ UNCHANGED util_vars
    /\ UNCHANGED host_vars
    /\ UNCHANGED <<ct_old, ct_changes, ct_enc, ct_k, ct_ok>>

\* the receiver applies the next event to its copy of the document
CTApplyEvent ==
    /\ ct_pc = "translated"
    /\ ct_k < Len(ct_events)
    /\ ct_doc' = ApplyEvent(ct_doc, ct_events[ct_k + 1], ct_enc)
    /\ ct_ok' = (ct_ok /\ RangeResolves(ct_doc, ct_events[ct_k + 1], ct_enc))
    /\ ct_k' = ct_k + 1
    /\ UNCHANGED conn_vars
    /\ UNCHANGED reg_vars
    /\ UNCHANGED util_vars
    /\ UNCHANGED host_vars
    /\ UNCHANGED <<ct_pc, ct_old, ct_changes, ct_enc, ct_events>>

CTFinish ==
    /\ ct_pc = "translated"
    /\ ct_k = Len(ct_events)
    /\ ct_pc' = "applied"
    /\ UNCHANGED conn_vars
    /\ UNCHANGED reg_vars
    /\ UNCHANGED util_vars
    /\ UNCHANGED host_vars
    /\ UNCHANGED <<ct_old, ct_changes, ct_enc, ct_events, ct_doc, ct_k, ct_ok>>

CTNext == CTAddOp \/ CTTranslate \/ CTApplyEvent \/ CTFinish

SpecCT == CTInit /\ [][CTNext]_vars

CTIdle ==
    /\ ct_pc = "build" /\ ct_enc = "Utf8" /\ ct_old = <<>> /\ ct_changes = <<>>
    /\ ct_events = <<>> /\ ct_doc = <<>> /\ ct_k = 0 /\ ct_ok = TRUE

-----------------------------------------------------------------------------
(* Specification Spec: one Connection from Client::start on, its handshake *)
(* task, callers issuing requests, the transport and the server.           *)

Init == CTIdle /\ ConnInit /\ RegistryNew /\ UtilIdle /\ HostIdle

Next ==
    \/ CallCreate("textDocument/completion")
    \/ \E i \in CallIds : CallPoll(i)
    \/ \E i \in CallIds : CallTimeout(i)
    \/ \E i \in CallIds : CallStreamClosed(i)
    \/ TransportSend
    \/ \E req \in wire_out, kind \in {"Value", "Rpc"}, caps \in HandshakeCapabilities :
          ServerReply(req, kind, caps)
    \/ \E resp \in wire_in : TransportRecv(resp)
    \/ TransportClose
    \/ HsInitialize
    \/ HsSetCaps
    \/ HsNotifyInitialized
    \/ HsReady

Spec == Init /\ [][Next]_vars

-----------------------------------------------------------------------------
(* Specification SpecDoc: the document operations on a Connection whose    *)
(* handshake has completed with any capability set (or has not yet made   *)
(* its first step).                                                        *)

\* the state a completed handshake leaves: initialize had id 0 and resolved
\* to the capabilities, "initialized" has been taken by the transport
ReadyInit(caps) ==
    /\ capabilities = Some(caps)
    /\ request_counter = 1
    /\ server_tx = <<>>
    /\ calls = <<[id |-> 0, method |-> "initialize", st |-> "done", sent |-> TRUE,
                  outcome |-> [kind |-> "Value", re |-> 1, id |-> 0,
                               result |-> Some(caps)]]>>
    /\ last = NoOp
    /\ hs_pc = "done"
    /\ ready_signals = 1
    /\ transport_up = TRUE
    /\ pending = <<>>
    /\ wire_out = {}
    /\ wire_in = {}

DocInit ==
    /\ CTIdle
    /\ RegistryNew
    /\ UtilIdle /\ HostIdle
    /\ \/ ConnInit
       \/ \E caps \in AllCapabilities : ReadyInit(caps)

DocNext ==
    \/ \E e \in DocEdits : DidChange(e)
    \/ \E text \in SaveTexts : DidSave(text)
    \/ Formatting
    \/ RangeFormatting
    \/ ReadCapabilities
    \/ \E i \in CallIds : CallPoll(i)
    \/ TransportSend
    \/ TransportClose

SpecDoc == DocInit /\ [][DocNext]_vars

-----------------------------------------------------------------------------
(* Specification SpecShutdown: force_shutdown or shutdown_and_exit on a    *)
(* Connection, before or after its handshake, beside another request, the *)
(* transport and the server.                                               *)

ShutdownInit ==
    /\ CTIdle
    /\ RegistryNew
    /\ UtilIdle /\ HostIdle
    /\ \/ ConnInit
       \/ \E caps \in HandshakeCapabilities : ReadyInit(caps)

ShutdownNext ==
    \/ ForceShutdown
    \/ ForceShutdownExit
    \/ ShutdownAndExit
    \/ ShutdownAndExitReturn
    \/ CallCreate("textDocument/completion")
    \/ \E i \in CallIds : CallPoll(i)
    \/ \E i \in CallIds : CallTimeout(i)
    \/ \E i \in CallIds : CallStreamClosed(i)
    \/ TransportSend
    \/ \E req \in wire_out, kind \in {"Value", "Rpc"}, caps \in HandshakeCapabilities :
          ServerReply(req, kind, caps)
    \/ \E resp \in wire_in : TransportRecv(resp)
    \/ TransportClose

SpecShutdown == ShutdownInit /\ [][ShutdownNext]_vars

-----------------------------------------------------------------------------
(* Specification SpecReg: a Registry from Registry::new on, the host       *)
(* getting Connections and opening documents, and for every Connection its *)
(* handshake task, spawned did_open tasks and transport.  The initialize   *)
(* request is taken with the outcomes Client::call can give it.            *)

RegInit == CTIdle /\ ConnInit /\ RegistryNew /\ UtilIdle /\ HostIdle

InitializeOutcomes == {"Value", "Rpc", "Timeout", "StreamClosed"}

RegNext ==
    \/ \E language_config \in LanguageConfigurations : RegistryGet(language_config)
    \/ \E language_config \in LanguageConfigurations : EditorOpen(language_config)
    \/ \E c \in ClientIds : DidOpenRun(c)
    \/ \E c \in ClientIds : HandshakeInitialize(c)
    \/ \E c \in ClientIds, kind \in InitializeOutcomes,
          caps \in HandshakeCapabilities : HandshakeSetCaps(c, kind, caps)
    \/ \E c \in ClientIds : HandshakeNotifyInitialized(c)
    \/ \E c \in ClientIds : HandshakeReady(c)
    \/ \E c \in ClientIds : ProcTransportClose(c)

SpecReg == RegInit /\ [][RegNext]_vars

-----------------------------------------------------------------------------
(* Closing the language servers: helix-view/src/editor.rs                   *)
(* Editor::close_language_servers.  closing.futs holds the force_shutdown   *)
(* future of each Client the Registry yields; clients[c].server_tx is what  *)
(* has been sent on the outbound channel of Client c.  Time is not counted: *)
(* the deadline may pass at any moment at which a future is still waiting.  *)

\* Duration::from_millis(timeout.unwrap_or(500))
DefaultTimeout == 500
\* timeout(Duration::from_secs(20), rx.recv()) of Client::call, in ms
CallTimeoutMs == 20000

\* the timeout arguments the host passes
Timeouts == {None, Some(30000)}

\* Client::force_shutdown, first poll, on Client record cl whose transport is
\* up or not: shutdown() draws the id and sends the request, then waits for
\* the response; with the channel closed both sends fail at once
force_shutdown_poll(cl, up) ==
    LET r == next_request_id(cl.request_counter)
    IN  IF up
        THEN [client |-> [cl EXCEPT !.request_counter = r.counter,
                                    !.server_tx = Append(@, Request(r.id, "shutdown", 0))],
              fut |-> [pc |-> "awaiting", id |-> r.id, ret |-> "none"]]
        ELSE [client |-> [cl EXCEPT !.request_counter = r.counter],
              fut |-> [pc |-> "done", id |-> r.id, ret |-> "Other"]]

\* Client::force_shutdown after its shutdown request resolved, with Ok or
\* Err: self.exit().await
force_shutdown_exit(cl, up) ==
    IF up
    THEN [client |-> [cl EXCEPT !.server_tx = Append(@, Exit)], ret |-> "Ok"]
    ELSE [client |-> cl, ret |-> "Other"]

\* the Clients iter_clients yields
Registered == {iter_clients[x] : x \in DOMAIN iter_clients}

\* timeout(..).await.map(|_| ()): Ok(()) once join_all is ready
CloseRun(timeout, futs) ==
    LET deadline == IF timeout = None THEN DefaultTimeout ELSE Unwrap(timeout)
    IN  IF \A c \in DOMAIN futs : futs[c].pc = "done"
        THEN [pc |-> "done", timeout |-> timeout, deadline |-> deadline,
              futs |-> futs, ret |-> "Ok"]
        ELSE [pc |-> "running", timeout |-> timeout, deadline |-> deadline,
              futs |-> futs, ret |-> "none"]

\* a close_language_servers that shuts the servers down one after the other:
\* only the first force_shutdown is polled
CloseLanguageServersInTurn(timeout) ==
    /\ closing.pc = "idle"
    /\ LET first == IF Registered = {} THEN 0
                    ELSE CHOOSE c \in Registered : \A d \in Registered : c <= d
           polled == [c \in Registered |->
                        IF c = first
                        THEN force_shutdown_poll(clients[c], procs[c].transport_up)
                        ELSE [client |-> clients[c],
                              fut |-> [pc |-> "created", id |-> -1, ret |-> "none"]]]
       IN  /\ clients' = [c \in ClientIds |->
                            IF c \in Registered THEN polled[c].client ELSE clients[c]]
           /\ closing' = CloseRun(timeout, [c \in Registered |-> polled[c].fut])
    /\ UNCHANGED <<inner, counter, incoming, procs, got>>
    /\ UNCHANGED <<rx, fan_out, coords>>
    /\ UNCHANGED ct_vars
    /\ UNCHANGED util_vars
    /\ UNCHANGED conn_vars

\* Editor::close_language_servers(timeout), first poll: join_all polls the
\* force_shutdown future of every Client of iter_clients
CloseLanguageServers(timeout) ==
    /\ closing.pc = "idle"
    /\ LET polled == [c \in Registered |->
                        force_shutdown_poll(clients[c], procs[c].transport_up)]
       IN  /\ clients' = [c \in ClientIds |->
                            IF c \in Registered THEN polled[c].client ELSE clients[c]]
           /\ closing' = CloseRun(timeout, [c \in Registered |-> polled[c].fut])
    /\ UNCHANGED <<inner, counter, incoming, procs, got>>
    /\ UNCHANGED <<rx, fan_out, coords>>
    /\ UNCHANGED ct_vars
    /\ UNCHANGED util_vars
    /\ UNCHANGED conn_vars

\* the shutdown request of Client c resolved (response, protocol error, the
\* call's own timeout, closed reply channel) and join_all is polled again:
\* force_shutdown of c sends exit and finishes
CloseShutdownResolved(c, kind) ==
    /\ closing.pc = "running"
    /\ c \in DOMAIN closing.futs
    /\ closing.futs[c].pc = "awaiting"
    /\ kind \in {"Value", "Rpc"} => procs[c].transport_up
    /\ kind = "StreamClosed" => ~procs[c].transport_up
    /\ kind = "Timeout" => closing.deadline > CallTimeoutMs
    /\ LET r == force_shutdown_exit(clients[c], procs[c].transport_up)
       IN  /\ clients' = [clients EXCEPT ![c] = r.client]
           /\ closing' = CloseRun(closing.timeout,
                             [closing.futs EXCEPT ![c] =
                                 [pc |-> "done", id |-> @.id, ret |-> r.ret]])
    /\ UNCHANGED <<inner, counter, incoming, procs, got>>
    /\ UNCHANGED <<rx, fan_out, coords>>
    /\ UNCHANGED ct_vars
    /\ UNCHANGED util_vars
    /\ UNCHANGED conn_vars

\* the deadline passes before join_all is ready: Err(Elapsed), the futures
\* are dropped where they are
CloseElapsed ==
    /\ closing.pc = "running"
    /\ closing' = [closing EXCEPT !.pc = "done", !.ret = "Elapsed"]
    /\ UNCHANGED reg_vars
    /\ UNCHANGED <<rx, fan_out, coords>>
    /\ UNCHANGED ct_vars
    /\ UNCHANGED util_vars
    /\ UNCHANGED conn_vars

-----------------------------------------------------------------------------
(* Specification SpecFanIn: the host gets Connections from the Registry,   *)
(* their transports read messages and the host takes them from the fan-in  *)
(* queue.                                                                  *)

FanInNext ==
    \/ \E language_config \in LanguageConfigurations : RegistryGet(language_config)
    \/ \E c \in ClientIds : TransportInbound(c)
    \/ \E i \in 1..Len(incoming) : IncomingNext(i)
    \/ \E c \in ClientIds : ProcTransportClose(c)

SpecFanIn == RegInit /\ [][FanInNext]_vars

-----------------------------------------------------------------------------
(* Specification SpecClose: the host gets Connections from the Registry and *)
(* then closes the language servers; the Registry is borrowed while         *)
(* close_language_servers runs, so get is not called meanwhile.             *)

CloseOutcomes == {"Value", "Rpc", "Timeout", "StreamClosed"}

CloseNext ==
    \/ \E language_config \in LanguageConfigurations :
          closing.pc = "idle" /\ RegistryGet(language_config)
    \/ \E timeout \in Timeouts : CloseLanguageServers(timeout)
    \/ \E c \in ClientIds, kind \in CloseOutcomes : CloseShutdownResolved(c, kind)
    \/ CloseElapsed
    \/ \E c \in ClientIds : ProcTransportClose(c)

SpecClose == RegInit /\ [][CloseNext]_vars

-----------------------------------------------------------------------------
(* Codec runs: one call of pos_to_lsp_pos or lsp_pos_to_pos on a document, *)
(* then the other function applied to what the call returned.              *)

CodecChars == {"a", "LF", "CR", "E", "G"}

\* the documents of the tests: "", "\n\n", "test\n\n\n\ncase", and
\* "line1\nline2"
TestDocs ==
    { <<>>,
      <<"LF", "LF">>,
      <<"a", "b", "c", "a", "LF", "LF", "LF", "LF", "c", "a", "b", "x">>,
      <<"a", "b", "c", "x", "a", "LF", "a", "b", "c", "x", "b">> }

CodecDocs == UNION {[1..n -> CodecChars] : n \in 0..MaxDocLen} \cup TestDocs

\* lsp::Position values handed to lsp_pos_to_pos
PositionLines == 0..(MaxDocLen + 1) \cup {U32_MAX}
PositionCharacters == 0..(2 * MaxDocLen + 1) \cup {U32_MAX}

PosToLspPos(o, enc) ==
    /\ conv = NoConv
    /\ o \in 0..Len(conv_doc)
    /\ conv' = [op |-> "pos_to_lsp_pos", enc |-> enc, pos |-> Some(o),
                lsp |-> Some(pos_to_lsp_pos(conv_doc, o, enc)), back |-> None]
    /\ UNCHANGED <<lsp_progress, progress_ret, conv_doc>>
    /\ UNCHANGED host_vars
    /\ UNCHANGED ct_vars
    /\ UNCHANGED conn_vars
    /\ UNCHANGED reg_vars

LspPosToPos(p, enc) ==
    /\ conv = NoConv
    /\ conv' = [op |-> "lsp_pos_to_pos", enc |-> enc, lsp |-> Some(p),
                pos |-> lsp_pos_to_pos(conv_doc, p, enc), back |-> None]
    /\ UNCHANGED <<lsp_progress, progress_ret, conv_doc>>
    /\ UNCHANGED host_vars
    /\ UNCHANGED ct_vars
    /\ UNCHANGED conn_vars
    /\ UNCHANGED reg_vars

\* lsp_pos_to_pos applied to the position pos_to_lsp_pos returned
LspPosToPosBack ==
    /\ conv.op = "pos_to_lsp_pos"
    /\ conv.back = None
    /\ conv' = [conv EXCEPT
                  !.back = Some(lsp_pos_to_pos(conv_doc, Unwrap(conv.lsp), conv.enc))]
    /\ UNCHANGED <<lsp_progress, progress_ret, conv_doc>>
    /\ UNCHANGED host_vars
    /\ UNCHANGED ct_vars
    /\ UNCHANGED conn_vars
    /\ UNCHANGED reg_vars

\* pos_to_lsp_pos applied to the offset lsp_pos_to_pos returned
PosToLspPosBack ==
    /\ conv.op = "lsp_pos_to_pos"
    /\ conv.pos # None
    /\ conv.back = None
    /\ conv' = [conv EXCEPT
                  !.back = Some(pos_to_lsp_pos(conv_doc, Unwrap(conv.pos), conv.enc))]
    /\ UNCHANGED <<lsp_progress, progress_ret, conv_doc>>
    /\ UNCHANGED host_vars
    /\ UNCHANGED ct_vars
    /\ UNCHANGED conn_vars
    /\ UNCHANGED reg_vars

-----------------------------------------------------------------------------
(* Specification SpecPos: the codec on every document of CodecDocs.        *)

PosInit ==
    /\ CTIdle /\ ConnInit /\ RegistryNew /\ ProgressNew /\ HostIdle
    /\ conv_doc \in CodecDocs
    /\ conv = NoConv

PosNext ==
    \/ \E o \in 0..(4 * MaxDocLen), enc \in Encodings : PosToLspPos(o, enc)
    \/ \E line \in PositionLines, character \in PositionCharacters,
          enc \in Encodings : LspPosToPos(Position(line, character), enc)
    \/ LspPosToPosBack
    \/ PosToLspPosBack

SpecPos == PosInit /\ [][PosNext]_vars

-----------------------------------------------------------------------------
(* Specification SpecCoords: one pos_at_coords call on a text of CodecDocs *)

CoordsNext ==
    \E text \in CodecDocs, row \in 0..(MaxDocLen + 2), col \in 0..(MaxDocLen + 1),
       limit_before_line_ending \in BOOLEAN :
        PosAtCoords(text, Coords(row, col), limit_before_line_ending)

SpecCoords == RegInit /\ [][CoordsNext]_vars

-----------------------------------------------------------------------------
(* Specification SpecProgress: any sequence of create, update and          *)
(* end_progress calls on a new Progress Table.                             *)

ProgressInit == CTIdle /\ ConnInit /\ RegistryNew /\ UtilIdle /\ HostIdle

ProgressNext ==
    \/ \E id \in ConnectionIds, token \in ProgressTokens : ProgressCreate(id, token)
    \/ \E id \in ConnectionIds, token \in ProgressTokens,
          status \in WorkDoneProgress : ProgressUpdate(id, token, status)
    \/ \E id \in ConnectionIds, token \in ProgressTokens : ProgressEnd(id, token)

SpecProgress == ProgressInit /\ [][ProgressNext]_vars

-----------------------------------------------------------------------------
(* Claims about the change translator, checked under SpecCT *)

\* C1: for every old document, encoding and operation list, the events
\* returned by changeset_to_changes, applied one after another to the old
\* document (ranges read in that encoding), yield the new document the
\* operation list describes.
C1_EventsRebuildNewDocument ==
    ct_pc = "applied" => (ct_ok /\ ct_doc = ct_new)

ReplaceEvent(l1, c1, l2, c2, text) ==
    TextDocumentContentChangeEvent(
        Some(Range(Position(l1, c1), Position(l2, c2))), text)

\* C2 as stated: for "abc" and [Retain(1), Delete(1), Insert("x"),
\* Retain(1)] changeset_to_changes returns exactly one event, a replace of
\* line 0 columns 1..2 by "x".
C2_ScenarioAOneReplace ==
    (ct_pc # "build" /\ ct_old = ScenarioAOld /\ ct_changes = ScenarioAOps)
        => ct_events = <<ReplaceEvent(0, 1, 0, 2, <<"x">>)>>

\* C2 amended: for "abc" and [Retain(1), Delete(1), Insert("x"), Retain(1)]
\* changeset_to_changes returns two events, the deletion of line 0 columns
\* 1..2 and then the insertion of "x" at line 0 column 1; the single
\* replace event is what it returns when the Insert comes before the
\* Delete, [Retain(1), Insert("x"), Delete(1), Retain(1)].
C2_ScenarioATwoEvents ==
    /\ (ct_pc # "build" /\ ct_old = ScenarioAOld /\ ct_changes = ScenarioAOps)
         => ct_events = << ReplaceEvent(0, 1, 0, 2, <<>>),
                           ReplaceEvent(0, 1, 0, 1, <<"x">>) >>
    /\ (ct_pc # "build" /\ ct_old = ScenarioAOld /\ ct_changes = ScenarioBOps)
         => ct_events = <<ReplaceEvent(0, 1, 0, 2, <<"x">>)>>
    /\ (ct_pc = "applied" /\ ct_old = ScenarioAOld)
         => ct_doc = <<"a", "x", "c">>

C2_Witness ==
    /\ ct_pc = "applied" /\ ct_old = ScenarioAOld /\ ct_changes = ScenarioAOps
    /\ Len(ct_events) = 2 /\ ct_doc = <<"a", "x", "c">>

\* old_pos when the loop reaches operation i: the old chars the operations
\* before it retain or delete
RECURSIVE OldPosAt(_, _)
OldPosAt(cs, i) ==
    IF i <= 1 THEN 0
    ELSE OldPosAt(cs, i - 1)
            + (IF cs[i - 1].op = "Insert" THEN 0 ELSE cs[i - 1].n)

\* a Delete right after an Insert is consumed by it
Consumed(cs, i) == cs[i].op = "Delete" /\ i > 1 /\ cs[i - 1].op = "Insert"

\* the operations that produce an event, in order: each Insert and each
\* Delete that is not consumed
RECURSIVE Producers(_, _)
Producers(cs, i) ==
    IF i > Len(cs) THEN <<>>
    ELSE (IF cs[i].op = "Insert" \/ (cs[i].op = "Delete" /\ ~Consumed(cs, i))
          THEN <<i>> ELSE <<>>) \o Producers(cs, i + 1)

\* the old text an event's range covers: what the Delete at i or consumed
\* by the Insert at i deletes
DeletedBy(cs, old, i) ==
    IF cs[i].op = "Delete"
    THEN Slice(old, OldPosAt(cs, i), OldPosAt(cs, i) + cs[i].n)
    ELSE IF i < Len(cs) /\ cs[i + 1].op = "Delete"
    THEN Slice(old, OldPosAt(cs, i), OldPosAt(cs, i) + cs[i + 1].n)
    ELSE <<>>

Translated == ct_pc # "build"

\* C34: an Insert whose very next operation is a Delete(m) produces a single
\* replace event (the inserted text, a range over the m deleted old chars)
\* and the Delete none of its own; an Insert not followed by a Delete
\* produces a pure insertion with start = end; a Delete not consumed
\* produces an event with empty text; a Retain produces no event.
C34_EventPerOperation ==
    Translated =>
        LET ps == Producers(ct_changes, 1)
        IN  /\ Len(ct_events) = Len(ps)
            /\ \A k \in 1..Len(ps) :
                  LET i == ps[k]
                      ev == ct_events[k]
                      r == Unwrap(ev.range)
                  IN  /\ ev.range # None
                      /\ ev.text = ct_changes[i].s
                      /\ ct_changes[i].op = "Delete" => ev.text = <<>>
                      /\ r.end = traverse(r.start, DeletedBy(ct_changes, ct_old, i))
                      /\ (ct_changes[i].op = "Insert"
                            /\ ~(i < Len(ct_changes) /\ ct_changes[i + 1].op = "Delete"))
                           => r.start = r.end
                      /\ DeletedBy(ct_changes, ct_old, i) # <<>> => r.start # r.end

\* Insert then Delete gave one replace event, and a Delete after it one
\* event of its own
C34_Witness ==
    /\ Translated
    /\ ct_changes = <<Insert(<<"a">>), Delete(1), Delete(1)>>
    /\ Len(ct_events) = 2
    /\ ct_events[1].text = <<"a">> /\ ct_events[2].text = <<>>
    /\ Unwrap(ct_events[1].range).start # Unwrap(ct_events[1].range).end

\* the code units of a text in the column unit of an encoding
UnitsIn(text, enc) == IF enc = "Utf8" THEN utf8_len(text) ELSE utf16_len(text)

\* the part of a text after its last line break
AfterLastBreak(text) ==
    IF BreakEnds(text) = {} THEN text
    ELSE SubSeq(text, (CHOOSE e \in BreakEnds(text) :
                          \A f \in BreakEnds(text) : f <= e) + 1, Len(text))

\* C35: the range end of a delete or replace event is the start advanced
\* through the deleted old text, \n, \r and \r\n each one line break: end
\* line = start line + line breaks of the deleted text; end column = start
\* column + code units of the deleted text when it has no line break, else
\* the code units after its last line break, in the column unit of the
\* Connection's offset encoding.
C35_RangeEndAdvanced ==
    Translated =>
        LET ps == Producers(ct_changes, 1)
        IN  \A k \in 1..Len(ps) :
              k <= Len(ct_events) =>
                LET deleted == DeletedBy(ct_changes, ct_old, ps[k])
                    r == Unwrap(ct_events[k].range)
                IN  deleted # <<>> =>
                      /\ r.end.line = r.start.line + Cardinality(BreakEnds(deleted))
                      /\ r.end.character =
                           IF BreakEnds(deleted) = {}
                           THEN r.start.character + UnitsIn(deleted, ct_enc)
                           ELSE UnitsIn(AfterLastBreak(deleted), ct_enc)

\* row-major order of lsp::Position
PosLeq(p, q) == p.line < q.line \/ (p.line = q.line /\ p.character <= q.character)

\* C36: in the event list returned by changeset_to_changes every event has
\* a range with start <= end (row-major) and no range_length, and the start
\* positions of successive events are non-decreasing.
C36_RangesOrdered ==
    Translated =>
        /\ \A k \in 1..Len(ct_events) :
              /\ ct_events[k].range # None
              /\ PosLeq(Unwrap(ct_events[k].range).start,
                        Unwrap(ct_events[k].range).end)
              /\ ct_events[k].range_length = None
        /\ \A k \in 1..(Len(ct_events) - 1) :
              PosLeq(Unwrap(ct_events[k].range).start,
                     Unwrap(ct_events[k + 1].range).start)

\* two events, the second one a replace that starts on a later line than
\* the first
C36_Witness ==
    /\ Translated
    /\ Len(ct_events) = 2
    /\ Unwrap(ct_events[1].range).start.line < Unwrap(ct_events[2].range).start.line
    /\ Unwrap(ct_events[2].range).start # Unwrap(ct_events[2].range).end

-----------------------------------------------------------------------------
(* Claims about the document operations, checked under SpecDoc *)

\* the sync kind a capability set declares, directly or as the change field
\* of its sync options; "undeclared" when it declares none
DeclaredSyncKind(caps) ==
    IF caps.text_document_sync = None THEN "undeclared"
    ELSE LET s == Unwrap(caps.text_document_sync)
         IN  IF s.tag = "Kind" THEN s.kind
             ELSE IF s.change = None THEN "undeclared"
             ELSE Unwrap(s.change)

DidChangeOf(changes) ==
    Notification("textDocument/didChange",
                 [content_changes |-> changes, text |-> None])

\* what awaiting a returned notification does to the outbound channel: the
\* payload is appended while the channel is open
Enqueued(tx, msg) == IF transport_up THEN Append(tx, msg) ELSE tx

\* C3: text_document_did_change is determined by the declared sync kind:
\* None or undeclared returns nothing and enqueues nothing; Full gives one
\* didChange with a single event, no range, the whole new text; Incremental
\* gives one didChange whose events are changeset_to_changes' output.
C3_DidChangeBySyncKind ==
    [][ (last'.n # last.n /\ last'.op = "did_change" /\ capabilities # None) =>
          LET k == DeclaredSyncKind(Unwrap(capabilities))
              e == last'.arg
              new == changeset_apply(e.cs, e.old, 0)
          IN  IF k \in {"None", "undeclared"}
              THEN last'.ret = "None" /\ server_tx' = server_tx
              ELSE /\ last'.ret = "Some"
                   /\ last'.msg = DidChangeOf(
                        IF k = "Full"
                        THEN <<[range |-> None, text |-> new, range_length |-> None]>>
                        ELSE changeset_to_changes(e.old, new, e.cs, offset_encoding))
                   /\ server_tx' = Enqueued(server_tx, last'.msg) ]_vars

C3_Witness ==
    /\ last.op = "did_change" /\ last.ret = "Some"
    /\ capabilities = Some(ServerCapabilities(
            Some(Options(Some("Incremental"), None)), None, None))
    /\ Len(last.msg.params.content_changes) = 1
    /\ server_tx # <<>> /\ server_tx[Len(server_tx)] = last.msg

\* the declared sync options request save notifications
SaveRequested(caps) ==
    /\ caps.text_document_sync # None
    /\ Unwrap(caps.text_document_sync).tag = "Options"
    /\ Unwrap(caps.text_document_sync).save
          \in {Some(Supported(TRUE)), Some(SaveOptions(None)),
               Some(SaveOptions(Some(TRUE))), Some(SaveOptions(Some(FALSE)))}

\* ... and ask for the text to be included
SaveTextRequested(caps) ==
    /\ SaveRequested(caps)
    /\ Unwrap(caps.text_document_sync).save = Some(SaveOptions(Some(TRUE)))

\* C4: text_document_did_save sends a didSave iff the declared sync options
\* request save notifications; the notification carries the full text iff
\* text inclusion was requested, and no text otherwise.
C4_DidSaveBySaveOptions ==
    [][ (last'.n # last.n /\ last'.op = "did_save" /\ capabilities # None) =>
          IF SaveRequested(Unwrap(capabilities))
          THEN /\ last'.ret = "Some"
               /\ last'.msg = Notification("textDocument/didSave",
                    [content_changes |-> <<>>,
                     text |-> IF SaveTextRequested(Unwrap(capabilities))
                              THEN Some(last'.arg.old) ELSE None])
               /\ server_tx' = Enqueued(server_tx, last'.msg)
          ELSE last'.ret = "None" /\ server_tx' = server_tx ]_vars

C4_Witness ==
    /\ last.op = "did_save" /\ last.ret = "Some"
    /\ capabilities = Some(ServerCapabilities(
            Some(Options(None, Some(SaveOptions(Some(TRUE))))), None, None))
    /\ last.msg.params.text = Some(<<"a", "LF", "b">>)
    /\ server_tx # <<>> /\ server_tx[Len(server_tx)] = last.msg

\* the provider is absent or false
NoProvider(provider) == provider \in {None, Some("Left(false)")}

\* C5 as stated: with no formatting provider a formatting call returns an
\* empty edit list, never an error; the same for range formatting.
C5_NoProviderEmptyEditList ==
    capabilities # None =>
      /\ (last.op = "formatting"
            /\ NoProvider(Unwrap(capabilities).document_formatting_provider))
           => (last.ret = "Ok" /\ last.edits = <<>>)
      /\ (last.op = "range_formatting"
            /\ NoProvider(Unwrap(capabilities).document_range_formatting_provider))
           => (last.ret = "Ok" /\ last.edits = <<>>)

\* C5 amended: with no formatting provider text_document_formatting returns
\* None (no future and no edit list at all) and never an error; range
\* formatting with no range-formatting provider returns Ok with an empty
\* edit list.
C5_NoProviderNoneOrEmpty ==
    capabilities # None =>
      /\ (last.op = "formatting"
            /\ NoProvider(Unwrap(capabilities).document_formatting_provider))
           => last.ret = "None"
      /\ (last.op = "range_formatting"
            /\ NoProvider(Unwrap(capabilities).document_range_formatting_provider))
           => (last.ret = "Ok" /\ last.edits = <<>>)

C5_Witness ==
    /\ last.op = "formatting" /\ last.ret = "None"
    /\ capabilities # None
    /\ Unwrap(capabilities).document_formatting_provider = Some("Left(false)")

\* the capability set makes the operation degrade to a no-op
Degrades(op, caps) ==
    \/ op = "did_change" /\ DeclaredSyncKind(caps) \in {"None", "undeclared"}
    \/ op = "did_save" /\ ~SaveRequested(caps)
    \/ op = "formatting" /\ NoProvider(caps.document_formatting_provider)
    \/ op = "range_formatting"
          /\ NoProvider(caps.document_range_formatting_provider)

\* C37: a capability-gated operation that degrades to a no-op (did_change
\* with sync kind None or undeclared, did_save when save is not requested,
\* formatting and range formatting when the provider is absent or false)
\* leaves the Connection unchanged: nothing is put on the outbound channel
\* and the request-id counter is not advanced.
C37_NoOpLeavesConnection ==
    [][ (last'.n # last.n /\ capabilities # None
            /\ Degrades(last'.op, Unwrap(capabilities))) =>
          /\ last'.ret \in {"None", "Ok"}
          /\ last'.call = 0
          /\ server_tx' = server_tx
          /\ request_counter' = request_counter
          /\ calls' = calls
          /\ capabilities' = capabilities
          /\ pending' = pending /\ wire_out' = wire_out ]_vars

\* a formatting call degraded to a no-op after an earlier request had
\* advanced the counter
C37_Witness ==
    /\ last.op = "formatting" /\ last.ret = "None" /\ last.n = 2
    /\ capabilities # None
    /\ Unwrap(capabilities).document_formatting_provider = None
    /\ request_counter = 1 /\ Len(calls) = 1

\* the operations that read the capability cell
GatedOps == {"capabilities", "did_change", "did_save", "formatting",
             "range_formatting"}

\* C12: reading the capability set before it is set is a fatal error, never
\* a default value: capabilities() and every capability-gated operation
\* (did_change, did_save, formatting, range formatting) called while the
\* cell is unset panics, and enqueues no message and issues no request.
C12_UnsetCellPanics ==
    [][ (last'.n # last.n /\ capabilities = None) =>
           /\ last'.op \in GatedOps
           /\ last'.ret = "Panic"
           /\ last'.msg = NoMsg /\ last'.call = 0
           /\ server_tx' = server_tx
           /\ calls' = calls
           /\ request_counter' = request_counter
           /\ capabilities' = None ]_vars

C12_Witness ==
    /\ capabilities = None
    /\ last.n = 2 /\ last.op = "did_change" /\ last.ret = "Panic"
    /\ server_tx = <<>> /\ calls = <<>> /\ request_counter = 0

-----------------------------------------------------------------------------
(* Claims about requests and the capability cell, checked under Spec *)

Done(i) == calls[i].st = "done"

C6_OutcomeOf(call, up) ==
    /\ call.st # "done" => call.outcome = NoOutcome
    /\ call.st = "done" =>
         /\ call.outcome.kind \in {"Value", "Rpc", "Timeout", "StreamClosed", "Other"}
         /\ call.outcome.kind = "Other" <=> ~call.sent
         /\ call.outcome.kind = "StreamClosed" => ~up
         /\ call.outcome.kind \in {"Value", "Rpc"} => call.outcome.id = call.id

C7_NoCrossTalk ==
    \A i \in CallIds :
        calls[i].outcome.kind \in {"Value", "Rpc"} =>
            /\ calls[i].outcome.re = i
            /\ calls[i].outcome.id = calls[i].id

\* the later request was answered first, the earlier one's response is still
\* on its way
C7_Witness ==
    \E i, j \in CallIds :
        /\ calls[i].id < calls[j].id
        /\ calls[i].st = "waiting"
        /\ \E resp \in wire_in : resp.re = i /\ resp.id = calls[i].id
        /\ Done(j) /\ calls[j].outcome.kind = "Value" /\ calls[j].outcome.re = j

\* C8: the request-id counter only increases: requests get different ids, a
\* request created later gets a larger id, and the first id is 0.
C8_RequestIdsIncrease ==
    /\ \A i, j \in CallIds : i < j => calls[i].id < calls[j].id
    /\ calls # <<>> => calls[1].id = 0
    /\ \A i \in CallIds : calls[i].id < request_counter

\* two futures created, neither polled yet, then a third
C8_Witness ==
    /\ Len(calls) = 3
    /\ calls[1].st = "created" /\ calls[2].st = "created"
    /\ calls[3].id = 2

\* C38: on a Connection, the requests on the outbound channel are in strictly
\* increasing id order, whatever the order in which the request futures that
\* were created are first polled.
C38_RequestsInIdOrder ==
    \A p, q \in 1..Len(server_tx) :
        (p < q /\ server_tx[p].kind = "Request" /\ server_tx[q].kind = "Request")
            => server_tx[p].id < server_tx[q].id

\* C9: a Timeout sends nothing for the abandoned request and leaves the
\* Connection usable; a response arriving late for the timed-out id reaches
\* no caller; later requests still get their own responses.
C9_TimeoutLeavesConnectionUsable ==
    [][ \A i \in CallIds :
          /\ (calls[i].st = "waiting" /\ calls'[i].outcome.kind = "Timeout") =>
                /\ server_tx' = server_tx
                /\ transport_up' = transport_up
                /\ pending' = pending /\ wire_out' = wire_out /\ wire_in' = wire_in
          /\ calls[i].outcome.kind = "Timeout" => calls'[i] = calls[i]
          /\ calls'[i].outcome.kind \in {"Value", "Rpc"} => calls'[i].outcome.re = i
      ]_vars

\* request i timed out, its late response has been read and dropped, and a
\* request made after it got its own response
C9_Witness ==
    \E i, j \in CallIds :
        /\ calls[i].outcome.kind = "Timeout"
        /\ transport_up
        /\ calls[i].id \notin DOMAIN pending
        /\ ~\E k \in 1..Len(server_tx) : server_tx[k].chan = i
        /\ ~\E r \in wire_out \cup wire_in : r.re = i
        /\ calls[i].id < calls[j].id
        /\ Done(j) /\ calls[j].outcome.kind = "Value" /\ calls[j].outcome.re = j

\* C10: the capability cell is write-once: unset at start, set only from
\* the result of a successful initialize request, never changed once set;
\* is_initialized() is true exactly when it is set and never reverts.
C10_CapabilityCellWriteOnce ==
    [][ /\ hs_pc = "spawned" => capabilities = None
        /\ capabilities # None => capabilities' = capabilities
        /\ (capabilities = None /\ capabilities' # None) =>
              \E i \in CallIds :
                  /\ calls[i].method = "initialize" /\ Done(i)
                  /\ calls[i].outcome.kind = "Value"
                  /\ capabilities' = calls[i].outcome.result
        /\ (is_initialized <=> capabilities # None)
        /\ (is_initialized' <=> capabilities' # None)
        /\ is_initialized => is_initialized' ]_vars

C10_Witness ==
    /\ is_initialized /\ hs_pc = "done" /\ ready_signals = 1
    /\ capabilities = Some(ServerCapabilities(
            Some(Kind("Incremental")), Some("Left(true)"), None))

\* "initialized" is the last payload put on the outbound channel in a step
InitializedEnqueued ==
    server_tx' = Append(server_tx, Notification("initialized", NoParams))

\* C13: the handshake runs in order, each step only after the previous one
\* succeeded: the initialize request is sent, the capability cell is set
\* from its response, "initialized" is enqueued, the ready signal fires;
\* the signal never fires while the capabilities are unset or before
\* "initialized" was enqueued, and it fires at most once.
C13_HandshakeOrder ==
    [][ /\ (hs_pc # hs_pc' /\ hs_pc' = "awaiting") =>
              /\ hs_pc = "spawned" /\ capabilities = None
              /\ transport_up =>
                    /\ server_tx' = Append(server_tx,
                          Request(request_counter, "initialize", Len(calls')))
                    /\ calls'[Len(calls')].sent
        /\ (capabilities = None /\ capabilities' # None) =>
              /\ hs_pc = "awaiting" /\ hs_pc' = "notify"
              /\ calls[HsCall].sent /\ calls[HsCall].outcome.kind = "Value"
              /\ capabilities' = calls[HsCall].outcome.result
        /\ (hs_pc # hs_pc' /\ hs_pc' = "notify") => capabilities' # None
        /\ (hs_pc # hs_pc' /\ hs_pc' = "signal") =>
              /\ hs_pc = "notify" /\ capabilities # None
              /\ InitializedEnqueued
        /\ InitializedEnqueued => (hs_pc = "notify" /\ hs_pc' = "signal")
        /\ ready_signals' # ready_signals =>
              /\ hs_pc = "signal" /\ hs_pc' = "done"
              /\ capabilities # None
              /\ ready_signals = 0 /\ ready_signals' = 1
        /\ (hs_pc # hs_pc' /\ hs_pc' = "done") => ready_signals' = 1
        /\ hs_pc' \in {"notify", "signal", "done"} => capabilities' # None
        /\ ready_signals' = 1 <=> hs_pc' = "done" ]_vars

\* the signal has fired and "initialized" is still queued behind nothing
C13_Witness ==
    /\ hs_pc = "done" /\ ready_signals = 1 /\ capabilities # None
    /\ server_tx = <<Notification("initialized", NoParams)>>
    /\ Done(HsCall) /\ calls[HsCall].id = 0

-----------------------------------------------------------------------------
(* Claims about the Registry and Editor::open, checked under SpecReg *)

\* the payload a step put on the outbound channel of Client c
SentNow(c) == clients'[c].server_tx[Len(clients'[c].server_tx)]

\* C11: only the Ready state permits feature and document calls: no
\* document or feature message (anything but the handshake's initialize and
\* "initialized") is put on a Connection's outbound channel before its
\* handshake has set the capabilities, the didOpen that Editor::open spawns
\* right after Registry::get included.
C11_NoMessageBeforeReady ==
    [][ \A c \in ClientIds :
          clients'[c].server_tx # clients[c].server_tx =>
              \/ SentNow(c).method \in {"initialize", "initialized"}
              \/ clients[c].capabilities # None ]_vars

\* the handshake parts of procs
HandshakeTasks(ps) ==
    [c \in 1..Len(ps) |->
        [hs_pc |-> ps[c].hs_pc, ready_signals |-> ps[c].ready_signals]]

\* a step is a get (alone or inside Editor::open) for this scope
GetFor(scope) == got'.n # got.n /\ got'.scope = scope

\* C14: there is at most one Connection per language scope: the first
\* successful get for a scope spawns and registers a Connection, and every
\* later get for that scope returns the same Connection without spawning a
\* process, drawing an id, adding a stream to the fan-in set or starting a
\* handshake.
C14_OneConnectionPerScope ==
    [][ /\ \A x, y \in DOMAIN inner' :
              inner'[x].client = inner'[y].client => x = y
        /\ Len(clients') = Cardinality(DOMAIN inner')
        /\ \A x \in DOMAIN inner : x \in DOMAIN inner' /\ inner'[x] = inner[x]
        /\ \A x \in DOMAIN inner : GetFor(x) =>
              /\ got'.ret = "Ok" /\ got'.client = inner[x].client
              /\ inner' = inner /\ counter' = counter /\ incoming' = incoming
              /\ clients' = clients
              /\ HandshakeTasks(procs') = HandshakeTasks(procs)
        /\ \A x \in (DOMAIN inner') \ (DOMAIN inner) :
              /\ GetFor(x) /\ got'.ret = "Ok"
              /\ got'.client = Len(clients) + 1
              /\ inner'[x].client = Len(clients) + 1
              /\ Len(clients') = Len(clients) + 1
              /\ Len(incoming') = Len(incoming) + 1
              /\ counter' = counter + 1
              /\ procs'[Len(clients')].hs_pc = "spawned" ]_vars

\* a second get for a scope whose Connection has finished its handshake
C14_Witness ==
    /\ got.n = 2 /\ got.op = "get" /\ got.ret = "Ok" /\ got.client = 1
    /\ got.scope = "source.rust"
    /\ Len(clients) = 1 /\ counter = 1 /\ Len(incoming) = 1
    /\ procs[1].hs_pc = "done" /\ procs[1].ready_signals = 1

LanguageConfig(scope) ==
    CHOOSE language_config \in LanguageConfigurations :
        language_config.scope = scope

\* C15: Registry::get for a language configuration with no tool command
\* fails with LspNotDefined and leaves the Registry unchanged: no entry, no
\* connection id consumed, no process spawned, no stream added.
C15_NotDefinedLeavesRegistry ==
    [][ got'.n # got.n =>
          /\ got'.ret = "LspNotDefined"
                <=> LanguageConfig(got'.scope).language_server = None
          /\ got'.ret = "LspNotDefined" =>
                /\ got'.client = 0
                /\ inner' = inner /\ counter' = counter
                /\ incoming' = incoming /\ clients' = clients
                /\ procs' = procs ]_vars

C15_Witness ==
    /\ got.n = 2 /\ got.ret = "LspNotDefined" /\ got.scope = "text.plain"
    /\ counter = 1 /\ Len(clients) = 1 /\ Len(incoming) = 1
    /\ DOMAIN inner = {"source.go"}

\* C16: connection ids are unique within a Registry and assigned
\* monotonically: two registered Connections have different ids, a
\* Connection created later has a larger id, and the id in the Registry's
\* table is the id the Connection reports and its inbound stream is tagged
\* with.
C16_ConnectionIdsUnique ==
    /\ \A x, y \in DOMAIN inner : x # y => inner[x].id # inner[y].id
    /\ \A c, d \in ClientIds : c < d => clients[c].id < clients[d].id
    /\ \A c \in ClientIds : clients[c].id < counter
    /\ Len(incoming) = Len(clients)
    /\ \A x \in DOMAIN inner :
          /\ inner[x].client \in ClientIds
          /\ inner[x].id = clients[inner[x].client].id
          /\ inner[x].id = incoming[inner[x].client].tag

\* two Connections, both past their handshake
C16_Witness ==
    /\ Len(clients) = 2 /\ clients[1].id = 0 /\ clients[2].id = 1
    /\ counter = 2
    /\ DOMAIN inner = {"source.rust", "source.go"}
    /\ procs[1].hs_pc = "done" /\ procs[2].hs_pc = "done"

InitializeFailed(c) ==
    procs[c].hs_result \in {"Rpc", "Timeout", "StreamClosed", "Other"}

\* C17: a handshake failure is permanent for its Connection: when the
\* initialize request fails the handshake task aborts, the capability cell
\* stays unset, "initialized" is never sent, the ready signal never fires,
\* and a later get for the scope returns the same Connection and neither
\* retries the handshake nor spawns a replacement.
C17_HandshakeFailurePermanent ==
    [][ \A c \in ClientIds :
          /\ InitializeFailed(c) =>
                /\ procs[c].hs_pc = "panicked" /\ procs'[c].hs_pc = "panicked"
                /\ procs'[c].hs_result = procs[c].hs_result
                /\ clients[c].capabilities = None
                /\ clients'[c].capabilities = None
                /\ procs[c].ready_signals = 0 /\ procs'[c].ready_signals = 0
                /\ \A k \in 1..Len(clients'[c].server_tx) :
                      clients'[c].server_tx[k].method # "initialized"
                /\ \A x \in DOMAIN inner :
                      (inner[x].client = c /\ GetFor(x)) =>
                          /\ got'.ret = "Ok" /\ got'.client = c
                          /\ Len(clients') = Len(clients)
                          /\ counter' = counter
          /\ (procs[c].hs_pc = "awaiting" /\ procs'[c].hs_pc # "awaiting"
                /\ procs'[c].hs_result # "Value") =>
                /\ procs'[c].hs_pc = "panicked"
                /\ clients'[c].capabilities = None ]_vars

\* the handshake timed out and a later get returned the same Connection
C17_Witness ==
    /\ Len(clients) = 1
    /\ procs[1].hs_pc = "panicked" /\ procs[1].hs_result = "Timeout"
    /\ got.n = 2 /\ got.ret = "Ok" /\ got.client = 1 /\ counter = 1
    /\ clients[1].capabilities = None

-----------------------------------------------------------------------------
(* Claims about readiness of feature calls, checked under Spec *)

\* C18: when the handshake never completes, every feature call issued
\* afterwards observes the Connection as not ready: while the capability
\* cell is unset no feature request (gated or ungated: completion, hover,
\* goto, ...) goes out to the server and none resolves to a server result.
C18_NotReadyObserved ==
    [][ \A i \in CallIds :
          (hs_pc = "awaiting" /\ capabilities = None
             /\ calls[i].method # "initialize") =>
              /\ calls[i].st = "created" => ~calls'[i].sent
              /\ calls[i].st = "waiting" => calls'[i].outcome.kind # "Value" ]_vars

-----------------------------------------------------------------------------
(* Claim about Editor::close_language_servers, checked under SpecClose *)

\* the shutdown request of the force_shutdown future fut is on the outbound
\* channel tx
ShutdownSent(fut, tx) ==
    \E p \in 1..Len(tx) : tx[p] = Request(fut.id, "shutdown", 0)

\* C40: close_language_servers runs force_shutdown for all registered
\* Connections concurrently under one deadline, 500 ms unless overridden: every
\* registered Connection with a live channel is sent its shutdown request
\* whatever the other servers do, and its exit notification as soon as its own
\* shutdown request resolves; the call returns Ok only when every
\* force_shutdown has finished and the elapsed error otherwise.
C40_CloseLanguageServers ==
    [][ closing'.pc # "idle" =>
          /\ DOMAIN closing'.futs = Registered
          /\ closing'.deadline =
                (IF closing'.timeout = None THEN 500 ELSE Unwrap(closing'.timeout))
          /\ \A c \in DOMAIN closing'.futs :
                LET fut == closing'.futs[c]
                    tx == clients'[c].server_tx
                IN  /\ fut.pc \in {"awaiting", "done"}
                    /\ fut.pc = "awaiting" => ShutdownSent(fut, tx)
                    /\ (fut.pc = "done" /\ fut.ret = "Ok") =>
                          /\ ShutdownSent(fut, tx)
                          /\ tx[Len(tx)] = Exit
                    /\ (fut.pc = "done" /\ fut.ret # "Ok") => ~procs'[c].transport_up
          /\ closing'.pc = "done" <=> closing'.ret \in {"Ok", "Elapsed"}
          /\ closing'.ret = "Ok" =>
                \A c \in DOMAIN closing'.futs : closing'.futs[c].pc = "done"
          /\ closing'.ret = "Elapsed" =>
                \E c \in DOMAIN closing'.futs : closing'.futs[c].pc = "awaiting"
          /\ closing.pc = "done" => closing' = closing ]_vars

\* two servers under the default deadline: the first never answered its
\* shutdown request, the second was sent both messages, the call returned the
\* elapsed error
C40_Witness ==
    /\ closing.ret = "Elapsed" /\ closing.deadline = 500
    /\ DOMAIN closing.futs = {1, 2}
    /\ closing.futs[1].pc = "awaiting"
    /\ clients[1].server_tx = <<Request(0, "shutdown", 0)>>
    /\ closing.futs[2].pc = "done" /\ closing.futs[2].ret = "Ok"
    /\ clients[2].server_tx = <<Request(0, "shutdown", 0), Exit>>

-----------------------------------------------------------------------------
(* Claims about force_shutdown, checked under SpecShutdown *)

\* force_shutdown returned in this step
ForceShutdownReturns ==
    /\ last.op = "force_shutdown" /\ last.ret = "Awaiting"
    /\ last'.ret # "Awaiting"

\* C19 as stated: for every outcome of its shutdown request force_shutdown
\* enqueues the exit notification, after the outcome is known.
C19_ExitAlwaysEnqueued ==
    [][ ForceShutdownReturns =>
          /\ Done(last.call)
          /\ server_tx' = Append(server_tx, Exit) ]_vars

\* C19 amended: for every outcome of its shutdown request (result, protocol
\* error, Timeout, StreamClosed, failed send) force_shutdown attempts the
\* exit notification, only after that outcome is known; the notification
\* is enqueued exactly when the outbound channel is still open at that
\* moment, and nothing else enqueues it.
C19_ExitAttemptedAfterShutdown ==
    [][ /\ ForceShutdownReturns =>
              /\ Done(last.call)
              /\ calls[last.call].method = "shutdown"
              /\ calls[last.call].outcome.kind \in
                    {"Value", "Rpc", "Timeout", "StreamClosed", "Other"}
              /\ last'.msg = Exit
              /\ transport_up => server_tx' = Append(server_tx, Exit)
              /\ ~transport_up => server_tx' = server_tx
        /\ (last.op = "force_shutdown" /\ server_tx' = Append(server_tx, Exit))
              => ForceShutdownReturns ]_vars

\* the shutdown request timed out and exit is queued behind it
C19_Witness ==
    /\ last.op = "force_shutdown" /\ last.ret = "Ok"
    /\ calls[last.call].outcome.kind = "Timeout"
    /\ server_tx # <<>> /\ server_tx[Len(server_tx)] = Exit
    /\ transport_up

\* C20: force_shutdown never propagates a failure outward: whatever happens
\* to the shutdown request and to the outbound channel, it returns success.
C20_ForceShutdownReturnsOk ==
    (last.op = "force_shutdown" /\ last.ret # "Awaiting") => last.ret = "Ok"

\* shutdown_and_exit returned in this step
ShutdownAndExitReturns ==
    /\ last.op = "shutdown_and_exit" /\ last.ret = "Awaiting"
    /\ last'.ret # "Awaiting"

\* C21: shutdown_and_exit sends the shutdown request first and the exit
\* notification only after that request got a successful response; when the
\* shutdown request fails it returns that error and exit is never sent.
C21_ExitOnlyAfterShutdownOk ==
    [][ /\ (last.op = "none" /\ last'.op = "shutdown_and_exit") =>
              /\ calls'[last'.call].method = "shutdown"
              /\ transport_up => server_tx' = Append(server_tx,
                    Request(request_counter, "shutdown", last'.call))
        /\ ShutdownAndExitReturns =>
              /\ Done(last.call)
              /\ calls[last.call].outcome.kind = "Value" =>
                    /\ transport_up =>
                          (server_tx' = Append(server_tx, Exit) /\ last'.ret = "Ok")
                    /\ ~transport_up =>
                          (server_tx' = server_tx /\ last'.ret = "Other")
              /\ calls[last.call].outcome.kind # "Value" =>
                    /\ server_tx' = server_tx
                    /\ last'.ret = calls[last.call].outcome.kind
                    /\ last'.ret \in {"Rpc", "Timeout", "StreamClosed", "Other"}
        /\ (last.op = "shutdown_and_exit"
              /\ server_tx' = Append(server_tx, Exit)) =>
              /\ ShutdownAndExitReturns
              /\ calls[last.call].outcome.kind = "Value"
        /\ (last.op = "shutdown_and_exit" /\ last.ret # "Awaiting") =>
              last' = last ]_vars

\* the server answered shutdown with an error: returned, exit not sent
C21_Witness ==
    /\ last.op = "shutdown_and_exit" /\ last.ret = "Rpc"
    /\ transport_up
    /\ \A k \in 1..Len(server_tx) : server_tx[k] # Exit
    /\ Done(last.call) /\ calls[last.call].outcome.kind = "Rpc"

-----------------------------------------------------------------------------
(* Claims about the Progress Table, checked under SpecProgress *)

\* every entry but (id, token) is what it was
OtherEntriesKept(id, token) ==
    \A i \in ConnectionIds, t \in ProgressTokens :
        <<i, t>> # <<id, token>> =>
            progress(lsp_progress', i, t) = progress(lsp_progress, i, t)

\* C22: end_progress(id, token) removes the entry and returns the status
\* most recently written for it (create writes Created, update(payload)
\* writes Started(payload), so create then update then end_progress returns
\* Started(payload)); on an untracked token it returns none and changes
\* nothing.
C22_EndProgressReturnsLast ==
    [][ lsp_progress' # lsp_progress \/ progress_ret' # progress_ret =>
          LET id == progress_ret'.id
              token == progress_ret'.token
              before == progress(lsp_progress, id, token)
              after == progress(lsp_progress', id, token)
          IN  /\ OtherEntriesKept(id, token)
              /\ progress_ret'.op = "create" => after = Some(Created)
              /\ progress_ret'.op = "update" =>
                    /\ after # None /\ Unwrap(after).tag = "Started"
                    /\ progress_ret'.ret = before
              /\ progress_ret'.op = "end_progress" =>
                    /\ progress_ret'.ret = before
                    /\ after = None
                    /\ before = None => lsp_progress' = lsp_progress ]_vars

C22_Witness ==
    /\ progress_ret = [op |-> "end_progress", id |-> 0, token |-> "t1",
                       ret |-> Some(Started("Report"))]
    /\ progress(lsp_progress, 0, "t1") = None
    /\ progress(lsp_progress, 0, "t2") = Some(Created)

\* C23: under any sequence of create, update and end_progress calls each
\* (connection id, token) entry follows the lifecycle Created, then Started
\* updates, then removed: a Started entry never goes back to Created, and
\* an entry never becomes Started without having been Created first.
C23_Lifecycle ==
    [][ \A id \in ConnectionIds, token \in ProgressTokens :
          LET before == progress(lsp_progress, id, token)
              after == progress(lsp_progress', id, token)
          IN  /\ (before # None /\ Unwrap(before).tag = "Started"
                    /\ after # None) => Unwrap(after).tag = "Started"
              /\ (before = None /\ after # None) =>
                    Unwrap(after).tag = "Created" ]_vars

\* C23 as the code has it: an entry changes only in a call that names its
\* (id, token); create leaves it Created whatever it was (a Started entry
\* included), update leaves it Started whatever it was (an untracked one
\* included) and end_progress leaves it untracked.  So an entry goes from
\* Started back to Created exactly in a create call on it, and becomes
\* Started without having been Created exactly in an update call on an
\* untracked token.
C23_LifecycleByCalls ==
    [][ lsp_progress' # lsp_progress \/ progress_ret' # progress_ret =>
          \A id \in ConnectionIds, token \in ProgressTokens :
            LET before == progress(lsp_progress, id, token)
                after == progress(lsp_progress', id, token)
                named == progress_ret'.id = id /\ progress_ret'.token = token
            IN  /\ after # before => named
                /\ (named /\ progress_ret'.op = "create") => after = Some(Created)
                /\ (named /\ progress_ret'.op = "update") =>
                      after # None /\ Unwrap(after).tag = "Started"
                /\ (named /\ progress_ret'.op = "end_progress") => after = None ]_vars

\* update on a token that was not tracked has made it Started
C23_Witness ==
    /\ progress_ret.op = "update" /\ progress_ret.ret = None
    /\ progress_ret.id = 0 /\ progress_ret.token = "t2"
    /\ progress(lsp_progress, 0, "t2") = Some(Started("Begin"))
    /\ progress(lsp_progress, 0, "t1") = None

\* C24: is_progressing(id) is true iff at least one token is tracked for
\* that connection id: false for an id never seen, false again once every
\* token of the id has been ended.
C24_IsProgressingIffTracked ==
    \A id \in ConnectionIds :
        /\ is_progressing(lsp_progress, id) <=>
              \E token \in ProgressTokens :
                  progress(lsp_progress, id, token) # None
        /\ is_progressing(lsp_progress, id) <=>
              \E token \in ProgressTokens : is_created(lsp_progress, id, token)
        /\ progress_map(lsp_progress, id) = None => ~is_progressing(lsp_progress, id)

\* both tokens of connection 1 were tracked and have been ended
C24_Witness ==
    /\ progress_map(lsp_progress, 1) = Some(<<>>)
    /\ ~is_progressing(lsp_progress, 1)
    /\ progress_ret.op = "end_progress" /\ progress_ret.id = 1
    /\ progress_ret.ret = Some(Created)
    /\ is_progressing(lsp_progress, 0)

-----------------------------------------------------------------------------
(* Claims about the offset codec, checked under SpecPos *)

\* C25: for every document, every char offset o with 0 <= o <= document
\* length and both encodings e,
\* lsp_pos_to_pos(doc, pos_to_lsp_pos(doc, o, e), e) = Some(o).
C25_RoundTripFromOffset ==
    (conv.op = "pos_to_lsp_pos" /\ conv.back # None) =>
        Unwrap(conv.back) = conv.pos

\* a two-unit char before the offset, under Utf16, on a second line
C25_Witness ==
    /\ conv_doc = <<"LF", "G", "a">>
    /\ conv.op = "pos_to_lsp_pos" /\ conv.enc = "Utf16"
    /\ conv.pos = Some(2)
    /\ conv.lsp = Some(Position(1, 2))
    /\ conv.back = Some(Some(2))

\* C26: for every document, encoding e and protocol position p for which
\* lsp_pos_to_pos(doc, p, e) returns Some(o), pos_to_lsp_pos(doc, o, e) = p.
C26_RoundTripFromPosition ==
    (conv.op = "lsp_pos_to_pos" /\ conv.back # None) =>
        Unwrap(conv.back) = Unwrap(conv.lsp)

\* the length of a line, its line break included, in code units of enc
LineLenIn(doc, line, enc) ==
    LET text == Slice(doc, line_to_char(doc, line), line_to_char(doc, line + 1))
    IN  IF enc = "Utf8" THEN utf8_len(text) ELSE utf16_len(text)

\* C27: lsp_pos_to_pos never clamps: it returns none whenever the line is
\* past the document's last line, and whenever the character is past the
\* length of that line measured in the given encoding; an offset it returns
\* lies on the named line.
C27_NoneOutsideLine ==
    conv.op = "lsp_pos_to_pos" =>
        LET p == Unwrap(conv.lsp)
            max_line == len_lines(conv_doc) - 1
        IN  /\ p.line > max_line => conv.pos = None
            /\ (p.line <= max_line
                  /\ p.character > LineLenIn(conv_doc, p.line, conv.enc)) =>
                    conv.pos = None
            /\ conv.pos # None =>
                    /\ line_to_char(conv_doc, p.line) <= Unwrap(conv.pos)
                    /\ Unwrap(conv.pos) <= line_to_char(conv_doc, p.line + 1)

\* every char of the document takes one code unit under both encodings
OneCodeUnit(doc) == \A i \in 1..Len(doc) : len_utf8(doc[i]) = 1

\* C28: for a document whose chars each take one code unit lsp_pos_to_pos
\* gives the same answer under Utf8 and Utf16: Some(start of the line +
\* character) when the line exists and that offset is at most the document
\* length, and None otherwise, also for line and character equal to the
\* largest 32-bit value; "line1\nline2" at (1, 2) gives 8.
C28_OneUnitDocuments ==
    (conv.op = "lsp_pos_to_pos" /\ OneCodeUnit(conv_doc)) =>
        LET p == Unwrap(conv.lsp)
            exists == p.line < len_lines(conv_doc)
            start == line_to_char(conv_doc, p.line)
        IN  /\ conv.pos = lsp_pos_to_pos(conv_doc, p, "Utf8")
            /\ conv.pos = lsp_pos_to_pos(conv_doc, p, "Utf16")
            /\ conv.pos =
                 IF exists /\ p.character <= Len(conv_doc) - start
                 THEN Some(start + p.character)
                 ELSE None

C28_Witness ==
    /\ conv_doc = <<"a", "b", "c", "x", "a", "LF", "a", "b", "c", "x", "b">>
    /\ conv.op = "lsp_pos_to_pos"
    /\ conv.lsp = Some(Position(1, 2))
    /\ conv.pos = Some(8)

\* the largest character on a line that does not start at offset 0
C28_WitnessMax ==
    /\ conv_doc = <<"LF", "LF">>
    /\ conv.op = "lsp_pos_to_pos"
    /\ conv.lsp = Some(Position(1, U32_MAX))
    /\ conv.pos = None

\* C29: under Utf8 a protocol column is a UTF-8 byte count and under Utf16
\* a UTF-16 code-unit count: pos_to_lsp_pos returns as column the number of
\* code units of the encoding between the start of the line and the offset,
\* and lsp_pos_to_pos reads the column in the same unit, also for chars
\* that take more than one code unit.
C29_ColumnInCodeUnits ==
    /\ conv.op = "pos_to_lsp_pos" =>
          LET o == Unwrap(conv.pos)
              start == line_to_char(conv_doc, char_to_line(conv_doc, o))
              text == Slice(conv_doc, start, o)
          IN  Unwrap(conv.lsp).character =
                IF conv.enc = "Utf8" THEN utf8_len(text) ELSE utf16_len(text)
    /\ (conv.op = "lsp_pos_to_pos" /\ conv.pos # None) =>
          LET p == Unwrap(conv.lsp)
              start == line_to_char(conv_doc, p.line)
              text == Slice(conv_doc, start, Unwrap(conv.pos))
              units == IF conv.enc = "Utf8" THEN utf8_len(text) ELSE utf16_len(text)
          IN  units <= p.character

\* C32: after any sequence of Registry::get calls get_by_id(i) returns the
\* Connection whose id is i when one is registered and none otherwise (ids
\* never assigned, ids drawn for a spawn that failed); iter_clients yields
\* every registered Connection exactly once.
C32_LookupById ==
    /\ \A i \in 0..(MaxGets + 1) :
          /\ get_by_id(i) # None =>
                /\ Unwrap(get_by_id(i)) \in ClientIds
                /\ clients[Unwrap(get_by_id(i))].id = i
          /\ get_by_id(i) = None <=> ~(\E c \in ClientIds : clients[c].id = i)
          /\ i >= counter => get_by_id(i) = None
    /\ \A c \in ClientIds :
          Cardinality({x \in DOMAIN iter_clients : iter_clients[x] = c}) = 1
    /\ \A x \in DOMAIN iter_clients : iter_clients[x] \in ClientIds

\* id 0 was drawn for a spawn that failed, id 1 is registered, id 2 was
\* never assigned
C32_Witness ==
    /\ counter = 2 /\ Len(clients) = 1
    /\ get_by_id(0) = None
    /\ get_by_id(1) = Some(1)
    /\ get_by_id(2) = None
    /\ DOMAIN iter_clients = {"source.go"}

\* C39: when spawning the tool process fails inside Registry::get, get
\* returns the startup error with the table and the fan-in set unchanged (no
\* entry for the scope, no stream, no handshake task); a later get for a
\* scope without an entry attempts a fresh spawn; the connection id drawn
\* for the failed attempt is never given to a later Connection.
C39_SpawnFailure ==
    [][ got'.n # got.n =>
          /\ got'.ret = "Io" =>
                /\ got'.client = 0
                /\ inner' = inner /\ got'.scope \notin DOMAIN inner'
                /\ incoming' = incoming
                /\ clients' = clients /\ procs' = procs
                /\ counter' = counter + 1
                /\ \A c \in 1..Len(clients') : clients'[c].id # counter
          /\ (got'.scope \notin DOMAIN inner
                /\ LanguageConfig(got'.scope).language_server # None) =>
                /\ got'.ret \in {"Ok", "Io"}
                /\ counter' = counter + 1
                /\ got'.ret = "Ok" =>
                      /\ Len(clients') = Len(clients) + 1
                      /\ clients'[got'.client].id = counter
                      /\ inner'[got'.scope].id = counter
          /\ counter' >= counter
          /\ \A c \in 1..Len(clients) : clients'[c].id = clients[c].id ]_vars

\* the first get failed to spawn and drew id 0; the second get, for
\* source.rust, spawned the Connection with id 1
C39_Witness ==
    /\ got.n = 2 /\ got.ret = "Ok" /\ got.scope = "source.rust"
    /\ counter = 2 /\ Len(clients) = 1 /\ clients[1].id = 1
    /\ DOMAIN inner = {"source.rust"} /\ inner["source.rust"].id = 1
    /\ Len(incoming) = 1 /\ Len(procs) = 1

-----------------------------------------------------------------------------
(* Claim about the offset encoding of a Connection, checked under Spec *)

\* C30: a Connection's offset encoding is the value negotiated from the
\* server's capabilities: Utf8 until the server declares otherwise, Utf16
\* after a handshake in which the server declares utf-16, and from then on
\* the same for the rest of the Connection's life.
C30_EncodingNegotiated ==
    offset_encoding =
        IF capabilities # None
              /\ Unwrap(capabilities).offset_encoding = Some("utf-16")
        THEN "Utf16"
        ELSE "Utf8"

-----------------------------------------------------------------------------
(* Claims about the Registry's fan-in queue and lookups *)

\* the calls of the items of a sequence, and the items tagged id
CallsOf(items) == [k \in 1..Len(items) |-> items[k].call]
TaggedWith(id) == SelectSeq(fan_out, LAMBDA item : item.id = id)

\* C31: in the fan-in queue the messages of one Connection come out in the
\* order the Connection received them, whatever the interleaving with other
\* Connections' messages: what has come out under a Connection's id,
\* followed by what its stream still holds, is what the Connection
\* received; nothing is lost, duplicated or tagged with another id.
C31_FanInOrder ==
    /\ \A c \in ClientIds :
          CallsOf(TaggedWith(clients[c].id)) \o CallsOf(incoming[c].queue)
              = RxOf(c)
    /\ \A c \in ClientIds : \A k \in 1..Len(incoming[c].queue) :
          incoming[c].queue[k].id = clients[c].id
    /\ \A k \in 1..Len(fan_out) : \E c \in ClientIds : fan_out[k].id = clients[c].id

\* two Connections; the second one's first message came out before the
\* message the first Connection had received earlier
C31_Witness ==
    /\ Len(clients) = 2
    /\ RxOf(1) = <<1>> /\ RxOf(2) = <<2, 3>>
    /\ fan_out = <<[id |-> clients[2].id, call |-> 2],
                   [id |-> clients[1].id, call |-> 1],
                   [id |-> clients[2].id, call |-> 3]>>

-----------------------------------------------------------------------------
(* Claim about pos_at_coords, checked under SpecCoords *)

\* C33: pos_at_coords is total and clamps out-of-range coordinates: for a
\* row beyond the end of the text it returns the end-of-text offset, for a
\* column past the end of the row the line-end offset (before the line
\* ending when limit_before_line_ending, after it otherwise); the result
\* lies in [0, text length].
C33_PosAtCoordsClamps ==
    coords.op = "pos_at_coords" =>
        LET text == coords.text
            row == coords.coord.row
        IN  /\ coords.ret # None
            /\ Unwrap(coords.ret) \in 0..Len(text)
            /\ row >= len_lines(text) => coords.ret = Some(Len(text))
            /\ (row < len_lines(text)
                  /\ coords.coord.col >= line_len_chars(text, row)) =>
                    coords.ret =
                      Some(IF coords.limit_before_line_ending
                           THEN line_end_char_index(text, row)
                           ELSE line_to_char(text, row + 1))

=============================================================================
